---- MODULE Spec2Model ----
(***************************************************************************)
(* The price retrieval path of the EGX backend: the disk cache             *)
(* (api-cache: getCached, setCache, getStaleCache), the three price        *)
(* adapters (fetchEODHDPrice, fetchTradingViewPrice, fetchCNBCPrice) and   *)
(* the orchestrator fetchStockPrice.                                       *)
(*                                                                         *)
(* A request is a process that stops at every network await: "eodhd",      *)
(* "tradingview" and "cnbc" are the three places where fetchStockPrice     *)
(* waits for an upstream response.  The code between two network awaits    *)
(* runs to completion on the single JavaScript thread and is one action.   *)
(***************************************************************************)
EXTENDS Integers, Sequences, FiniteSets, TLC

(***************************************************************************)
(* Bounds of the model.                                                    *)
(***************************************************************************)
\* The clock runs from 0 to MaxDays freshness windows.
MaxDays == 1
\* An EODHD response body holds at most MaxRows daily rows.
MaxRows == 2
\* The symbols array of a batch request holds at most MaxBatch elements.
MaxBatch == 2
\* A series of historical prices holds at most MaxPrices prices.
MaxPrices == 4
\* The analyses that are cached in a behaviour of the analysis model.
MaxAnalyses == 3
\* A response of historical prices holds at most MaxCloses daily rows.
MaxCloses == 3
\* The recommendations that are recorded in a behaviour of the history model.
MaxHistory == 3

(***************************************************************************)
(* JavaScript values.  Every value is a record [t, v, d]: t is the kind,   *)
(* and a finite number is the rational v / d (d > 0, lowest terms).        *)
(***************************************************************************)
Val(t, v, d) == [t |-> t, v |-> v, d |-> d]
\* null, or a property that is missing from the upstream JSON (undefined):
\* both are falsy and the adapters treat them alike.
Null == Val("null", 0, 1)
NaN == Val("nan", 0, 1)
Infinity == Val("inf", 0, 1)
NegInfinity == Val("ninf", 0, 1)
Num(n) == Val("num", n, 1)
\* A string that holds no number, such as "N/A".
Str == Val("str", 0, 1)
\* A string that holds the number n, such as "12".
NumStr(n) == Val("numstr", n, 1)

Abs(n) == IF n < 0 THEN 0 - n ELSE n

RECURSIVE GCD(_, _)
GCD(a, b) == IF b = 0 THEN a ELSE GCD(b, a % b)

\* The finite number n / d (d # 0) in lowest terms with a positive denominator.
Frac(n, d) ==
  LET g == GCD(Abs(n), Abs(d))
      s == IF d < 0 THEN 0 - 1 ELSE 1
  IN Val("num", (s * n) \div g, Abs(d) \div g)

\* typeof x === "number"
IsNumber(x) == x.t \in {"num", "nan", "inf", "ninf"}

\* ToBoolean: what `x ? a : b`, `x && y` and `x || y` test.
Truthy(x) ==
  CASE x.t = "null" -> FALSE
    [] x.t = "nan" -> FALSE
    [] x.t = "num" -> x.v # 0
    [] OTHER -> TRUE

\* x || null
OrNull(x) == IF Truthy(x) THEN x ELSE Null

\* ToNumber: the coercion `-` and `/` apply to their operands.
ToNumber(x) ==
  CASE x.t = "null" -> Num(0)
    [] x.t = "str" -> NaN
    [] x.t = "numstr" -> Num(x.v)
    [] OTHER -> x

parseFloat(x) ==
  CASE x.t = "null" -> NaN
    [] x.t = "str" -> NaN
    [] x.t = "numstr" -> Num(x.v)
    [] OTHER -> x

\* parseInt reads digits only: parseInt(Infinity) is NaN, and a fraction is cut.
parseInt(x) ==
  CASE x.t = "num" -> Num(IF x.v < 0 THEN 0 - (Abs(x.v) \div x.d) ELSE x.v \div x.d)
    [] x.t = "numstr" -> Num(x.v)
    [] OTHER -> NaN

isNaN(x) == ToNumber(x).t = "nan"

\* x > 0
GreaterThanZero(x) ==
  LET n == ToNumber(x)
  IN CASE n.t = "num" -> n.v > 0
       [] n.t = "inf" -> TRUE
       [] OTHER -> FALSE

\* a - b
Minus(a, b) ==
  LET x == ToNumber(a)
      y == ToNumber(b)
  IN CASE x.t = "nan" \/ y.t = "nan" -> NaN
       [] x.t = "num" /\ y.t = "num" -> Frac(x.v * y.d - y.v * x.d, x.d * y.d)
       [] x.t = y.t -> NaN
       [] x.t = "inf" -> Infinity
       [] x.t = "ninf" -> NegInfinity
       [] y.t = "inf" -> NegInfinity
       [] OTHER -> Infinity

\* (a / b) * 100
Percent(a, b) ==
  LET x == ToNumber(a)
      y == ToNumber(b)
      Flip(z) == IF z.t = "inf" THEN NegInfinity ELSE Infinity
  IN CASE x.t = "nan" \/ y.t = "nan" -> NaN
       [] x.t = "num" /\ y.t = "num" ->
            IF y.v # 0 THEN Frac(x.v * y.d * 100, x.d * y.v)
            ELSE IF x.v = 0 THEN NaN
            ELSE IF x.v > 0 THEN Infinity ELSE NegInfinity
       [] x.t = "num" -> Num(0)
       [] y.t = "num" -> IF y.v < 0 THEN Flip(x) ELSE x
       [] OTHER -> NaN

(***************************************************************************)
(* Inputs.                                                                 *)
(***************************************************************************)
\* Ticker symbols a request may name.
Symbols == {"COMI", "ETEL"}
\* A daily row of an EODHD body, without its date: the close, and the value
\* that its open, high, low and volume hold.
DailyRow(close, aux) ==
  [close |-> close, open |-> aux, high |-> aux, low |-> aux, volume |-> aux]

\* A regular row; a row with a close that overflows (1e999) and columns that
\* hold no number; a row with no close; a negative close; a zero close and
\* no columns.
DailyRows ==
  { DailyRow(Num(1), Num(3)), DailyRow(Infinity, Str), DailyRow(Str, Num(3)),
    DailyRow(Num(0 - 1), Num(3)), DailyRow(Num(0), Null) }

(***************************************************************************)
(* StockPrice (the PriceQuote of the specification).                       *)
(***************************************************************************)
\* A property that is not set.
Undefined == "undefined"

StockPrice(symbol, price, change, changePercent, previousClose, open, high, low, volume, source, error) ==
  [symbol |-> symbol, price |-> price, change |-> change,
   changePercent |-> changePercent, previousClose |-> previousClose,
   open |-> open, high |-> high, low |-> low, volume |-> volume,
   source |-> source, error |-> error]

\* The members of a cached payload that hold numbers: those of a StockPrice,
\* and the fairValueEstimate of a GeminiAnalysis.
NumberFields ==
  {"price", "change", "changePercent", "previousClose", "open", "high", "low", "volume",
   "fairValueEstimate"}

(***************************************************************************)
(* JSON.  JSON has no NaN and no Infinity: JSON.stringify writes null for  *)
(* them.  A text is modelled by the value that JSON.parse reads back.      *)
(***************************************************************************)
JSONValue(x) == IF x.t \in {"nan", "inf", "ninf"} THEN Null ELSE x

JSONData(data) ==
  [f \in DOMAIN data |-> IF f \in NumberFields THEN JSONValue(data[f]) ELSE data[f]]

JSON_stringify(entry) ==
  [text |-> [data |-> JSONData(entry.data), timestamp |-> entry.timestamp]]

JSON_parse(content) == content.text

\* What a write that failed midway leaves in a file: the file was emptied
\* when it was opened, and holds at most the beginning of the text.  No
\* beginning of the text of an object is a JSON text: JSON.parse throws.
Truncated == [text |-> [truncated |-> TRUE]]

IsJSON(content) == "truncated" \notin DOMAIN content.text

(***************************************************************************)
(* State.                                                                  *)
(***************************************************************************)
VARIABLES
  now,      \* Date.now(), in milliseconds
  files,    \* the cache directory: key |-> content of <key>.json
  lastSet,  \* key |-> the data and the time of the latest setCache(key, data),
            \*         and the count of the calls of setCache(key, ..) so far
  calls,    \* the fetchStockPrice calls: request |-> its position and its locals
  dir,      \* the cache directory exists
  io,       \* the latest call of a function of api-cache, and what it did
  fin,      \* the fetchStockFinancials call: its position and its locals
  risk,     \* the risk ratios of calculateAnalysis: the prices and the ratios
  batch,    \* the POST /api/prices/batch request: its body and its answer
  llm,      \* the analyzeStockWithGemini call, and whether an API key is set
  val,      \* the calculateAnalysis call: its inputs and the StockAnalysis it returns
  series,   \* the fetchHistoricalPrices call: its position, the response and the prices
  hist,     \* the recommendation-history routes: the request in flight, the latest answer, and the log of what was recorded
  env,      \* process.env as the server was started with, and the extractTransactionsFromImage call
  eod       \* the quote fetchEODHDPrice builds from a body of daily rows

\* The state of api-cache beside the directory's files.
cacheVars == <<dir, io>>

\* The state outside the price path.
others == <<cacheVars, fin, risk, batch, llm, val, series, hist, env, eod>>

\* The state that the functions of api-cache leave alone.
aroundCache == <<lastSet, calls, fin, risk, batch, llm, val, series, hist, env, eod>>

\* The state that fetchStockFinancials leaves alone.
aroundFinancials == <<now, files, lastSet, calls, cacheVars, risk, batch, llm, val, series, hist, env, eod>>

\* The state that the calculation of the risk ratios leaves alone.
aroundRisk == <<now, files, lastSet, calls, cacheVars, fin, batch, llm, val, series, hist, env, eod>>

\* The state that the batch route leaves alone, beside the price path.
aroundBatch == <<cacheVars, fin, risk, llm, val, series, hist, env, eod>>

\* The state that analyzeStockWithGemini leaves alone, beside the cache.
aroundAnalysis == <<calls, cacheVars, fin, risk, batch, val, series, hist, env, eod>>

\* The state that calculateAnalysis leaves alone, once analyzeStockWithGemini
\* has answered.
aroundValuation == <<now, files, lastSet, calls, cacheVars, fin, risk, batch, llm, series, hist, env, eod>>

\* The state that fetchHistoricalPrices leaves alone, beside the cache.
aroundSeries == <<calls, cacheVars, fin, risk, batch, llm, val, hist, env, eod>>

\* The state that the recommendation-history routes leave alone, beside the
\* directory.
aroundHistory == <<lastSet, calls, cacheVars, fin, risk, batch, llm, val, series, env, eod>>

\* The state that the start of the server and extractTransactionsFromImage
\* leave alone, beside the analysis call.
aroundEnvironment == <<now, files, lastSet, calls, cacheVars, fin, risk, batch, val, series, hist, eod>>

\* The state that the building of a quote leaves alone.
aroundQuote == <<now, files, lastSet, calls, cacheVars, fin, risk, batch, llm, val, series, hist, env>>

vars == <<now, files, lastSet, calls, others>>

CACHE_DURATION_MS == 24 * 60 * 60 * 1000

\* Requests in flight at a time.
Calls == {"r1"}

PriceKey(symbol) == "price_" \o symbol

\* What an async function did: it returned value, or it let an exception out.
Returned(value) == [threw |-> FALSE, value |-> value]
Thrown == [threw |-> TRUE, value |-> Null]

(***************************************************************************)
(* api-cache                                                               *)
(***************************************************************************)
\* getCached with the window closed at 24h inclusive (age <= 24h).
getCachedInclusive(key) ==
  IF key \notin DOMAIN files THEN Null
  ELSE LET entry == JSON_parse(files[key])
           age == now - entry.timestamp
       IN IF age <= CACHE_DURATION_MS THEN entry.data ELSE Null

\* getCached with the window one millisecond short.
getCachedShortWindow(key) ==
  IF key \notin DOMAIN files THEN Null
  ELSE LET entry == JSON_parse(files[key])
           age == now - entry.timestamp
       IN IF age < CACHE_DURATION_MS - 1 THEN entry.data ELSE Null

\* The body of the try block of getCached.  fault is what the file system
\* does to this call: "none", or "read" (readFileSync throws).
getCachedTry(key, fault) ==
  IF key \notin DOMAIN files THEN Returned(Null)
  ELSE IF fault = "read" \/ ~IsJSON(files[key]) THEN Thrown
  ELSE LET entry == JSON_parse(files[key])
           age == now - entry.timestamp
       IN Returned(IF age < CACHE_DURATION_MS THEN entry.data ELSE Null)

\* catch (error) { console.error(...); return null; }
getCachedCatch == Returned(Null)

\* getCached under fault: [threw, value].
getCachedIO(key, fault) ==
  LET body == getCachedTry(key, fault)
  IN IF body.threw THEN getCachedCatch ELSE body

\* getCached on a file system that works.
getCached(key) == getCachedIO(key, "none").value

\* The body of the try block of getStaleCache.
getStaleCacheTry(key, fault) ==
  IF key \notin DOMAIN files THEN Returned(Null)
  ELSE IF fault = "read" \/ ~IsJSON(files[key]) THEN Thrown
  ELSE Returned(JSON_parse(files[key]).data)

\* A catch block that lets the exception out.
getStaleCacheRethrow == Thrown

\* catch (error) { console.error(...); return null; }
getStaleCacheCatch == Returned(Null)

\* getStaleCache under fault: [threw, value].
getStaleCacheIO(key, fault) ==
  LET body == getStaleCacheTry(key, fault)
  IN IF body.threw THEN getStaleCacheCatch ELSE body

\* getStaleCache on a file system that works.
getStaleCache(key) == getStaleCacheIO(key, "none").value

\* setCache that leaves a file that exists as it is.
setCacheNoOverwrite(key, data) ==
  IF key \in DOMAIN files THEN files
  ELSE [k \in DOMAIN files \cup {key} |->
          IF k = key THEN JSON_stringify([data |-> data, timestamp |-> now])
          ELSE files[k]]

\* The directory with content in the file of key.
WithFile(key, content) ==
  [k \in DOMAIN files \cup {key} |-> IF k = key THEN content ELSE files[k]]

\* fs.writeFileSync(cachePath, text): [threw, files].  It throws when the
\* directory is missing (ENOENT); fault is what the file system does to this
\* call beside that: "none", "open" (the file cannot be opened: nothing is
\* touched) or "write" (the write fails after the file was opened and emptied).
writeFileSync(key, text, fault) ==
  CASE ~dir -> [threw |-> TRUE, files |-> files]
    [] fault = "open" -> [threw |-> TRUE, files |-> files]
    [] fault = "write" -> [threw |-> TRUE, files |-> WithFile(key, Truncated)]
    [] OTHER -> [threw |-> FALSE, files |-> WithFile(key, text)]

\* setCache under fault: threw (it let an exception out), failed (the write
\* threw inside it) and files (the directory after it).
setCacheIO(key, data, fault) ==
  LET entry == [data |-> data, timestamp |-> now]
      written == writeFileSync(key, JSON_stringify(entry), fault)
  IN \* catch (error) { console.error(...); }
     [threw |-> FALSE, failed |-> written.threw, files |-> written.files]

\* setCache that writes the new data under the timestamp of the entry that
\* is there: an entry mixed of two writes.
setCacheMixed(key, data) ==
  LET old == IF key \in DOMAIN files /\ IsJSON(files[key])
             THEN JSON_parse(files[key]).timestamp ELSE now
  IN WithFile(key, JSON_stringify([data |-> data, timestamp |-> old]))

\* The cache directory after setCache(key, data) on a file system that works.
setCache(key, data) == setCacheIO(key, data, "none").files

\* The record of the latest setCache per key, kept beside the directory.
RecordSet(key, data) ==
  [k \in DOMAIN lastSet \cup {key} |->
     IF k = key
     THEN [data |-> data, at |-> now,
           count |-> IF key \in DOMAIN lastSet THEN lastSet[key].count + 1 ELSE 1]
     ELSE lastSet[k]]

\* clearCache when readdirSync lists the files in order and the unlinkSync of
\* order[failAt] throws (failAt = 0: none throws): threw, failed (an unlinkSync
\* threw inside it) and files (the directory after it).
clearCacheIO(order, failAt) ==
  IF ~dir THEN [threw |-> FALSE, failed |-> FALSE, files |-> files]
  ELSE LET last == IF failAt = 0 THEN Len(order) ELSE failAt - 1
           removed == { order[i] : i \in 1..last }
       IN \* catch (error) { console.error("Cache clear error:", error); }
          [threw |-> FALSE, failed |-> failAt # 0,
           files |-> [k \in DOMAIN files \ removed |-> files[k]]]

\* The orders in which readdirSync may list the files of the directory.
Listings ==
  { order \in [1..Cardinality(DOMAIN files) -> DOMAIN files] :
      \A i, j \in DOMAIN order : order[i] = order[j] => i = j }

\* A call of a function of api-cache: its arguments (key, data), what the file
\* system did to it (fault), the directory before and after it, what it
\* returned (value), whether it let an exception out (threw), whether an
\* error occurred inside it (failed) and the files it failed to remove (kept).
CacheCall(op, key, data, fault, outcome, after, kept) ==
  [op |-> op, key |-> key, data |-> data, fault |-> fault, hadDir |-> dir,
   before |-> files, after |-> after, threw |-> outcome.threw,
   failed |-> outcome.failed, value |-> outcome.value, kept |-> kept]

\* No call yet.
NoCall ==
  [op |-> "none", key |-> "", data |-> Null, fault |-> "none", hadDir |-> TRUE,
   before |-> [k \in {} |-> Null], after |-> [k \in {} |-> Null],
   threw |-> FALSE, failed |-> FALSE, value |-> Null, kept |-> {}]

(***************************************************************************)
(* Upstream responses.  kind is "reject" (fetch or response.json() throws: *)
(* a network error, a body that is no JSON), "notok" (a non-success HTTP   *)
(* status) or "ok" (a success status and a JSON body).                     *)
(***************************************************************************)
\* The bodies of n daily rows, dated by day number in either order.
EODRows(n, descending) ==
  { [i \in 1..n |->
       [date |-> IF descending THEN n + 1 - i ELSE i,
        close |-> rows[i].close, open |-> rows[i].open, high |-> rows[i].high,
        low |-> rows[i].low, volume |-> rows[i].volume]] :
      rows \in [1..n -> DailyRows] }

EODHDResponses ==
  { [kind |-> k, isArray |-> FALSE, data |-> <<>>] : k \in {"reject", "notok", "ok"} }
  \cup { [kind |-> "ok", isArray |-> TRUE, data |-> rows] :
           rows \in UNION { EODRows(n, desc) : n \in 0..MaxRows, desc \in BOOLEAN } }

\* The close, change and the other columns of a TradingView scanner row.
TVCloseValues == {Null, Num(0), Num(0 - 1), Num(1), NumStr(1), Infinity}
TVChangeValues == {Null, Num(0 - 1), Num(1)}
TVAuxValues == {Null, Num(3)}

\* shape: "none" (no data[0], or no d in it), "scalar" (d is not iterable)
\* or "row" (d is the array of the requested columns).
TradingViewResponses ==
  { [kind |-> k, shape |-> "none", d |-> <<>>] : k \in {"reject", "notok", "ok"} }
  \cup { [kind |-> "ok", shape |-> "scalar", d |-> <<>>] }
  \cup { [kind |-> "ok", shape |-> "row", d |-> <<cl, ch, aux, aux, aux, aux>>] :
           cl \in TVCloseValues, ch \in TVChangeValues, aux \in TVAuxValues }

\* quote.last, quote.volume and the other properties of a CNBC quote.
CNBCLastValues == {Null, NumStr(0), NumStr(0 - 1), NumStr(1), Str, Infinity}
CNBCVolumeValues == {Null, NumStr(3), Num(3)}
CNBCAuxValues == {Null, NumStr(3)}

\* shape: "none" (no FormattedQuote[0]) or "quote".
CNBCResponses ==
  { [kind |-> k, shape |-> "none", last |-> Null, volume |-> Null, aux |-> Null] :
      k \in {"reject", "notok", "ok"} }
  \cup { [kind |-> "ok", shape |-> "quote", last |-> l, volume |-> v, aux |-> a] :
           l \in CNBCLastValues, v \in CNBCVolumeValues, a \in CNBCAuxValues }

(***************************************************************************)
(* fetchEODHDPrice, after the response has arrived.                        *)
(***************************************************************************)
\* The quote built from the body (Null when the body yields none).
EODHDQuote(symbol, isArray, data) ==
  IF ~(isArray /\ Len(data) > 0) THEN Null
  ELSE
    LET isDescending == Len(data) > 1 /\ data[1].date > data[2].date
        latest == IF isDescending THEN data[1] ELSE data[Len(data)]
        price == IF Truthy(latest.close) THEN parseFloat(latest.close) ELSE Null
        open == IF Truthy(latest.open) THEN parseFloat(latest.open) ELSE Null
        high == IF Truthy(latest.high) THEN parseFloat(latest.high) ELSE Null
        low == IF Truthy(latest.low) THEN parseFloat(latest.low) ELSE Null
        volume == IF Truthy(latest.volume) THEN parseInt(latest.volume) ELSE Null
        \* data[data.length - 2] of the zero-based source
        previousClose ==
          IF Len(data) > 1
          THEN IF Truthy(data[Len(data) - 1].close)
               THEN parseFloat(data[Len(data) - 1].close) ELSE Null
          ELSE Null
        hasChange == Len(data) > 1 /\ Truthy(price) /\ Truthy(previousClose)
        change == IF hasChange THEN Minus(price, previousClose) ELSE Null
        changePercent == IF hasChange THEN Percent(change, previousClose) ELSE Null
    IN IF Truthy(price) /\ GreaterThanZero(price)
       THEN StockPrice(symbol, price, change, changePercent, previousClose,
                       open, high, low, volume, "EODHD", Undefined)
       ELSE Null

(***************************************************************************)
(* fetchTradingViewPrice and fetchCNBCPrice: [threw, value], where threw   *)
(* says that the adapter let an exception out and value is what it         *)
(* returned otherwise.                                                     *)
(***************************************************************************)
\* A catch block that lets the exception out.
TradingViewRethrow == Thrown

\* catch (error) { console.error(...); return null; }
TradingViewCatch == Returned(Null)

TradingViewQuote(symbol, d) ==
  LET close == d[1]
      change == d[2]
      volume == d[3]
      open == d[4]
      high == d[5]
      low == d[6]
  IN IF Truthy(close) /\ IsNumber(close)
     THEN LET previousClose == IF Truthy(change) THEN Minus(close, change) ELSE Null
              changePercent ==
                IF Truthy(previousClose) /\ GreaterThanZero(previousClose)
                THEN Percent(change, previousClose) ELSE Null
          IN StockPrice(symbol, close, OrNull(change), changePercent, previousClose,
                        OrNull(open), OrNull(high), OrNull(low), OrNull(volume),
                        "TradingView", Undefined)
     ELSE Null

fetchTradingViewPrice(symbol, resp) ==
  CASE resp.kind = "reject" -> TradingViewCatch
    [] resp.kind = "notok" -> Returned(Null)
    [] resp.shape = "none" -> Returned(Null)
    \* destructuring a value that is not iterable throws a TypeError
    [] resp.shape = "scalar" -> TradingViewCatch
    [] OTHER -> Returned(TradingViewQuote(symbol, resp.d))

\* catch (error) { console.error(...); return null; }
CNBCCatch == Returned(Null)

CNBCQuote(symbol, quote) ==
  LET price == parseFloat(quote.last)
      aux == IF Truthy(quote.aux) THEN parseFloat(quote.aux) ELSE Null
      volume == IF Truthy(quote.volume) THEN parseFloat(quote.volume) ELSE Null
  IN IF ~isNaN(price) /\ GreaterThanZero(price)
     THEN StockPrice(symbol, price, aux, aux, aux, aux, aux, aux, volume,
                     "CNBC", Undefined)
     ELSE Null

fetchCNBCPrice(symbol, resp) ==
  CASE resp.kind = "reject" -> CNBCCatch
    [] resp.kind = "notok" -> Returned(Null)
    [] resp.shape = "none" -> Returned(Null)
    [] ~Truthy(resp.last) -> Returned(Null)
    \* quote.volume.replace is no function when volume is a number: a TypeError
    [] Truthy(resp.volume) /\ resp.volume.t = "num" -> CNBCCatch
    [] OTHER -> Returned(CNBCQuote(symbol, resp))

\* catch (error) { ...; const stale = await getStaleCache(key); return stale; }
EODHDCatch(key) == Returned(getStaleCache(key))

\* fetchEODHDPrice that saves the stale quote it falls back to.
fetchEODHDPriceResavesStale(symbol, resp) ==
  LET key == PriceKey(symbol)
      priceData == EODHDQuote(symbol, resp.isArray, resp.data)
      stale == getStaleCache(key)
  IN IF resp.kind = "ok" /\ priceData # Null
     THEN [threw |-> FALSE, value |-> priceData, store |-> TRUE, stale |-> FALSE]
     ELSE [threw |-> FALSE, value |-> stale, store |-> stale # Null, stale |-> TRUE]

\* What fetchEODHDPrice does with the response: [threw, value], store (whether
\* it calls setCache with value) and stale (whether value is what
\* getStaleCache returned).
fetchEODHDPrice(symbol, resp) ==
  LET key == PriceKey(symbol)
      priceData == EODHDQuote(symbol, resp.isArray, resp.data)
      Stale(outcome) ==
        [threw |-> outcome.threw, value |-> outcome.value, store |-> FALSE,
         stale |-> ~outcome.threw]
  IN CASE resp.kind = "reject" -> Stale(EODHDCatch(key))
       [] resp.kind = "notok" -> Stale(Returned(getStaleCache(key)))
       [] priceData # Null ->
            [threw |-> FALSE, value |-> priceData, store |-> TRUE, stale |-> FALSE]
       [] OTHER -> Stale(Returned(getStaleCache(key)))

(***************************************************************************)
(* fetchStockPrice                                                         *)
(*                                                                         *)
(* Beside pc, symbol and result (the position, the argument and the value  *)
(* returned), a call keeps a log of what it did: called (the providers it  *)
(* sent a request to, in order), returned (what each adapter returned, in  *)
(* order), wrote (how many times it called setCache), origin (where the    *)
(* value it returned came from) and raised (it let an exception out).      *)
(***************************************************************************)
Idle ==
  [pc |-> "idle", symbol |-> "", called |-> <<>>, returned |-> <<>>, wrote |-> 0,
   origin |-> "none", result |-> Null, raised |-> FALSE]

\* The record fetchStockPrice returns when no provider has a price.
Unavailable(symbol) ==
  StockPrice(symbol, Null, Null, Null, Null, Null, Null, Null, Null,
             Undefined, "Price not available for this stock")

\* { ...cached, source: `${cached.source} (Cached)` }
MarkCached(cached) == [cached EXCEPT !.source = cached.source \o " (Cached)"]

\* Call c returns value.
Done(cs, c, value, origin) ==
  [cs EXCEPT ![c].pc = "done", ![c].result = value, ![c].origin = origin]

\* Call c lets an exception out.
Raise(cs, c) == [cs EXCEPT ![c].pc = "done", ![c].raised = TRUE]

\* Call c sends its request to provider and waits for the response.
Await(cs, c, pc, provider) ==
  [cs EXCEPT ![c].pc = pc, ![c].called = Append(@, provider)]

\* fetchStockPrice that goes from the primary straight to the tertiary.
fetchStockPriceSkipsSecondary(cs, c, provider, outcome, origin) ==
  IF outcome.threw THEN Raise(cs, c)
  ELSE
    LET logged ==
          [cs EXCEPT ![c].returned =
             Append(@, [provider |-> provider, value |-> outcome.value])]
    IN IF outcome.value # Null THEN Done(logged, c, outcome.value, origin)
       ELSE CASE provider = "EODHD" -> Await(logged, c, "cnbc", "CNBC")
              [] OTHER -> Done(logged, c, Unavailable(cs[c].symbol), "unavailable")

\* fetchStockPrice from the point where the adapter of provider has
\* returned: the value is returned when it is not null, and the next
\* adapter is called otherwise.
fetchStockPrice(cs, c, provider, outcome, origin) ==
  IF outcome.threw THEN Raise(cs, c)
  ELSE
    LET logged ==
          [cs EXCEPT ![c].returned =
             Append(@, [provider |-> provider, value |-> outcome.value])]
    IN IF outcome.value # Null THEN Done(logged, c, outcome.value, origin)
       ELSE CASE provider = "EODHD" -> Await(logged, c, "tradingview", "TradingView")
              [] provider = "TradingView" -> Await(logged, c, "cnbc", "CNBC")
              [] OTHER -> Done(logged, c, Unavailable(cs[c].symbol), "unavailable")

\* The calls cs after call c has run fetchStockPrice(symbol) up to its first
\* network await.
Started(cs, c, symbol) ==
  LET cached == getCached(PriceKey(symbol))
      started == [cs EXCEPT ![c].symbol = symbol]
  IN IF cached # Null
     THEN fetchStockPrice(started, c, "EODHD", Returned(MarkCached(cached)), "fresh")
     ELSE Await(started, c, "eodhd", "EODHD")

\* fetchStockPrice(symbol) up to its first network await: fetchEODHDPrice
\* reads the fresh cache and, on a miss, sends the EODHD request.
Request(c, symbol) ==
  /\ calls[c].pc = "idle"
  /\ calls' = Started(calls, c, symbol)
  /\ UNCHANGED <<now, files, lastSet, others>>

\* The EODHD response arrives: the rest of fetchEODHDPrice, then
\* fetchStockPrice up to its next await.
EODHDResponse(c, resp) ==
  /\ calls[c].pc = "eodhd"
  /\ LET symbol == calls[c].symbol
         outcome == fetchEODHDPrice(symbol, resp)
         origin == IF outcome.stale THEN "stale" ELSE "live"
         written == [calls EXCEPT ![c].wrote = IF outcome.store THEN @ + 1 ELSE @]
     IN /\ IF outcome.store
           THEN /\ files' = setCache(PriceKey(symbol), outcome.value)
                /\ lastSet' = RecordSet(PriceKey(symbol), outcome.value)
           ELSE UNCHANGED <<files, lastSet>>
        /\ calls' = fetchStockPrice(written, c, "EODHD", outcome, origin)
  /\ UNCHANGED <<now, others>>

\* The TradingView response arrives: the rest of fetchTradingViewPrice, then
\* fetchStockPrice up to its next await.
TradingViewResponse(c, resp) ==
  /\ calls[c].pc = "tradingview"
  /\ calls' = fetchStockPrice(calls, c, "TradingView",
                              fetchTradingViewPrice(calls[c].symbol, resp), "live")
  /\ UNCHANGED <<now, files, lastSet, others>>

\* The CNBC response arrives: the rest of fetchCNBCPrice and of fetchStockPrice.
CNBCResponse(c, resp) ==
  /\ calls[c].pc = "cnbc"
  /\ calls' = fetchStockPrice(calls, c, "CNBC",
                              fetchCNBCPrice(calls[c].symbol, resp), "live")
  /\ UNCHANGED <<now, files, lastSet, others>>

\* The route handler has answered; the next request may come.
Return(c) ==
  /\ calls[c].pc = "done"
  /\ calls' = [calls EXCEPT ![c] = Idle]
  /\ UNCHANGED <<now, files, lastSet, others>>

\* Time passes, to the last millisecond of a freshness window or to the
\* first of the next.
Tick ==
  /\ now' = IF now % CACHE_DURATION_MS = CACHE_DURATION_MS - 1
            THEN now + 1 ELSE now + (CACHE_DURATION_MS - 1)
  /\ now' <= MaxDays * CACHE_DURATION_MS
  /\ UNCHANGED <<files, lastSet, calls, others>>

\* The latest analysis that was cached: none yet.
NoneCached == [symbol |-> "", currentPrice |-> Null, skipCache |-> FALSE]

\* No analyzeStockWithGemini call is running; configured says whether
\* GEMINI_API_KEY or GOOGLE_API_KEY was set when the server started, and
\* latest is the request whose analysis was cached last.
NoAnalysis(configured, latest) ==
  [pc |-> "idle", configured |-> configured, symbol |-> "", skipCache |-> FALSE,
   currentPrice |-> Null, called |-> 0, response |-> [kind |-> "none"],
   origin |-> "none", result |-> Null, latest |-> latest]

\* No calculateAnalysis call is running.
NoValuation == [pc |-> "idle", price |-> Null, financials |-> Null, sharpeRatio |-> Null, geminiAnalysis |-> Null, analysis |-> Null]

\* No fetchHistoricalPrices call is running.
NoSeries == [pc |-> "idle", symbol |-> "", data |-> <<>>, origin |-> "none", prices |-> <<>>]

\* No request of the recommendation-history routes was made: none is in
\* flight, none was answered, and nothing was recorded.
NoHistory == [pending |-> <<>>, op |-> "none", status |-> "none", body |-> <<>>, log |-> <<>>]

\* The server was started with these two variables in its environment ("":
\* not set); no extractTransactionsFromImage call was made.
Environment(gemini, google) ==
  [GEMINI_API_KEY |-> gemini, GOOGLE_API_KEY |-> google,
   pc |-> "idle", threw |-> FALSE, message |-> "", transactions |-> Null]

\* No body of daily rows was met.
NoQuote == [pc |-> "idle", data |-> <<>>, value |-> Null]

\* No batch request is being served.
NoBatch == [pc |-> "idle", isArray |-> FALSE, symbols |-> <<>>, status |-> 0, prices |-> <<>>]

\* Before any calculation of the risk ratios.
NoRisk ==
  [pc |-> "idle", historicalPrices |-> <<>>, returns |-> <<>>,
   sharpeRatio |-> Null, sortinoRatio |-> Null]

\* No fetchStockFinancials call is running.
NoFinancials ==
  [pc |-> "idle", symbol |-> "", eodhd |-> Null, tradingView |-> Null,
   mubasher |-> Null, asked |-> <<>>, result |-> Null]

\* api-cache is loaded: the directory exists (it is made when it is missing).
CacheLoaded ==
  /\ dir = TRUE
  /\ io = NoCall

Init ==
  /\ now = 0
  /\ files = [k \in {} |-> Null]
  /\ lastSet = [k \in {} |-> Null]
  /\ calls = [c \in Calls |-> Idle]
  /\ CacheLoaded
  /\ fin = NoFinancials
  /\ risk = NoRisk
  /\ batch = NoBatch
  /\ llm = NoAnalysis(TRUE, NoneCached)
  /\ eod = NoQuote
  /\ env = Environment("key", "")
  /\ hist = NoHistory
  /\ series = NoSeries
  /\ val = NoValuation

Next ==
  \/ \E c \in Calls, symbol \in Symbols : Request(c, symbol)
  \/ \E c \in Calls, resp \in EODHDResponses : EODHDResponse(c, resp)
  \/ \E c \in Calls, resp \in TradingViewResponses : TradingViewResponse(c, resp)
  \/ \E c \in Calls, resp \in CNBCResponses : CNBCResponse(c, resp)
  \/ \E c \in Calls : Return(c)
  \/ Tick

Spec == Init /\ [][Next]_vars

(***************************************************************************)
(* Properties.                                                             *)
(***************************************************************************)
IsDone(c) == calls[c].pc = "done" /\ ~calls[c].raised

\* The keys whose latest setCache is less than 24h old.
FreshKeys == { k \in DOMAIN lastSet : now - lastSet[k].at < CACHE_DURATION_MS }

\* JSON cannot write x.
NotInJSON(x) == x.t \in {"nan", "inf", "ninf"}

\* got is the payload v as a JSON file holds it: member for member v, but
\* for the NaN and Infinity members of v, which are null in got.
ReadsBackAs(v, got) ==
  /\ got # Null
  /\ DOMAIN got = DOMAIN v
  /\ \A f \in DOMAIN v :
       got[f] = IF f \in NumberFields /\ NotInJSON(v[f]) THEN Null ELSE v[f]

ProviderOrder == <<"EODHD", "TradingView", "CNBC">>

IsPrefix(s, t) == Len(s) <= Len(t) /\ \A i \in 1..Len(s) : s[i] = t[i]

\* C1, as stated: for any key and payload, getCached(key) less than 24h after
\* the most recent setCache(key, v) returns v unchanged.
C1_FreshReadIsLastWrite ==
  \A k \in FreshKeys : getCached(k) = lastSet[k].data

\* C1, amended: getCached(key) less than 24h after the most recent
\* setCache(key, v) returns the v of that latest call, whatever was stored
\* before, unchanged but for the members of v that JSON cannot write (NaN,
\* Infinity), which come back as null.
C1_FreshReadIsLastWriteAsJSON ==
  \A k \in FreshKeys : ReadsBackAs(lastSet[k].data, getCached(k))

\* A key written a second time, with a payload JSON can write, is read back.
C1_Witness ==
  \E k \in FreshKeys :
    /\ lastSet[k].count >= 2
    /\ getCached(k) = lastSet[k].data

\* C2: getCached(key) returns the payload exactly while now - writtenAt < 24h;
\* from age 24h on it returns null and the entry stays as it was written:
\* getStaleCache(key) returns the payload at every age.
C2_ExpiredIsAbsentButKept ==
  \A k \in DOMAIN lastSet :
    /\ (getCached(k) # Null) <=> (now - lastSet[k].at < CACHE_DURATION_MS)
    /\ k \in DOMAIN files
    /\ ReadsBackAs(lastSet[k].data, getStaleCache(k))

\* An entry of age exactly 24h, after a getCached that missed it.
C2_Witness ==
  \E k \in DOMAIN lastSet, c \in Calls :
    /\ now - lastSet[k].at = CACHE_DURATION_MS
    /\ calls[c].pc = "eodhd"
    /\ PriceKey(calls[c].symbol) = k
    /\ getCached(k) = Null
    /\ getStaleCache(k) # Null

\* C3: the adapters are called, and the requests sent, in the order EODHD,
\* TradingView, CNBC; a provider is called only after every earlier one has
\* returned null; fetchStockPrice returns what the first adapter that did not
\* return null returned.
C3_FixedOrderFirstResult ==
  \A c \in Calls :
    LET r == calls[c].returned
        n == Len(r)
        sent == calls[c].called
    IN /\ IsPrefix([i \in 1..n |-> r[i].provider], ProviderOrder)
       /\ IsPrefix(sent, ProviderOrder)
       /\ Len(sent) <= n + 1
       /\ \A i \in 1..(n - 1) : r[i].value = Null
       /\ \A i \in 2..Len(sent) : r[i - 1].value = Null
       /\ IsDone(c) =>
            /\ n >= 1
            /\ IF r[n].value # Null THEN calls[c].result = r[n].value
               ELSE n = 3 /\ calls[c].result.price = Null

\* The tertiary provider answers after the first two returned null.
C3_Witness ==
  \E c \in Calls :
    /\ IsDone(c)
    /\ calls[c].called = ProviderOrder
    /\ Len(calls[c].returned) = 3
    /\ calls[c].returned[3].value # Null
    /\ calls[c].result.source = "CNBC"

\* C4: fetchStockPrice returns a stale cached quote only when the fresh cache
\* and all three live providers have failed in this call.
C4_StaleIsLastResort ==
  \A c \in Calls :
    IsDone(c) /\ calls[c].origin = "stale" => calls[c].called = ProviderOrder

\* C5: when the primary returns null and the secondary succeeds, the quote's
\* source is the secondary and the call writes no cache entry; the cache
\* directory changes only in a step in which a live EODHD fetch succeeds,
\* and then only under the key of that symbol.
C5_OnlyPrimaryCaches ==
  /\ [](\A c \in Calls :
          (/\ IsDone(c)
           /\ Len(calls[c].returned) = 2
           /\ calls[c].returned[2].value # Null)
          => /\ calls[c].returned[1].value = Null
             /\ calls[c].result.source = "TradingView"
             /\ calls[c].wrote = 0)
  /\ [][files' # files =>
          \E c \in Calls :
            /\ calls[c].pc = "eodhd"
            /\ calls'[c].pc = "done"
            /\ calls'[c].origin = "live"
            /\ calls'[c].result.source = "EODHD"
            /\ calls'[c].wrote = 1
            /\ DOMAIN files' = DOMAIN files \cup {PriceKey(calls[c].symbol)}
            /\ \A k \in DOMAIN files \ {PriceKey(calls[c].symbol)} :
                 files'[k] = files[k]]_vars

\* The secondary answers for a symbol that has no cache entry, and none is made.
C5_Witness ==
  \E c \in Calls :
    /\ IsDone(c)
    /\ calls[c].called = <<"EODHD", "TradingView">>
    /\ calls[c].result.source = "TradingView"
    /\ PriceKey(calls[c].symbol) \notin DOMAIN files

\* C6: no call lets an exception out, whatever the upstream responses; when
\* every adapter returned null, fetchStockPrice returns the record with a
\* null price and the error "Price not available for this stock".
C6_UnavailableNeverRaises ==
  \A c \in Calls :
    /\ ~calls[c].raised
    /\ (/\ calls[c].pc = "done"
        /\ Len(calls[c].returned) = 3
        /\ calls[c].returned[3].value = Null)
       => /\ calls[c].result.price = Null
          /\ calls[c].result.error = "Price not available for this stock"

\* All three adapters returned null.
C6_Witness ==
  \E c \in Calls :
    /\ IsDone(c)
    /\ calls[c].origin = "unavailable"
    /\ \A i \in 1..3 : calls[c].returned[i].value = Null

\* C7: in every quote fetchStockPrice returns, error is set if and only if
\* price is null.
C7_ErrorIffNoPrice ==
  \A c \in Calls :
    IsDone(c) => ((calls[c].result.error # Undefined) <=> (calls[c].result.price = Null))

\* C8: every quote fetchStockPrice returns with a price has a price > 0.
C8_PriceIsPositive ==
  \A c \in Calls :
    IsDone(c) =>
      calls[c].result.price = Null \/ GreaterThanZero(calls[c].result.price)

\* a and b agree on every member but source.
SameButSource(a, b) ==
  /\ DOMAIN a = DOMAIN b
  /\ \A f \in DOMAIN b \ {"source"} : a[f] = b[f]

\* C9: a fetchStockPrice that starts while the price entry of its symbol is
\* less than 24h old returns the cached quote at once: no request to any
\* provider, no cache write.
C9_FreshEntryShortCircuits ==
  [][\A c \in Calls :
       (/\ calls[c].pc = "idle"
        /\ calls'[c].pc # "idle"
        /\ PriceKey(calls'[c].symbol) \in FreshKeys)
       => /\ calls'[c].pc = "done"
          /\ ~calls'[c].raised
          /\ calls'[c].called = <<>>
          /\ calls'[c].wrote = 0
          /\ files' = files
          /\ SameButSource(calls'[c].result,
                           getStaleCache(PriceKey(calls'[c].symbol)))]_vars

\* A call answered from an entry in the last millisecond of its window.
C9_Witness ==
  \E c \in Calls :
    /\ IsDone(c)
    /\ calls[c].origin = "fresh"
    /\ calls[c].called = <<>>
    /\ now - lastSet[PriceKey(calls[c].symbol)].at = CACHE_DURATION_MS - 1

\* C10: a quote that this call read from the cache, fresh or stale, has a
\* source that marks it as cached; a quote fetched live has the provider's name.
C10_SourceTellsCached ==
  \A c \in Calls :
    IsDone(c) =>
      /\ calls[c].origin \in {"fresh", "stale"} => calls[c].result.source = "EODHD (Cached)"
      /\ calls[c].origin = "live" => calls[c].result.source \in {"EODHD", "TradingView", "CNBC"}

(***************************************************************************)
(* api-cache on a file system that fails.  A caller calls getCached,       *)
(* setCache, getStaleCache and clearCache at any time; reads and writes    *)
(* fail, the cache directory is removed while the server runs, and the     *)
(* server is started again.                                                *)
(***************************************************************************)
CacheKeys == { PriceKey(symbol) : symbol \in Symbols }

\* The payloads the caller stores: the quotes of the one-row EODHD bodies.
CachePayloads ==
  { EODHDQuote("COMI", TRUE, rows) : rows \in EODRows(1, FALSE) } \ {Null}

ReadFaults == {"none", "read"}
WriteFaults == {"none", "open", "write"}

GetCached(key, fault) ==
  /\ LET outcome == getCachedIO(key, fault)
         did == [threw |-> outcome.threw, value |-> outcome.value,
                 failed |-> getCachedTry(key, fault).threw]
     IN io' = CacheCall("getCached", key, Null, fault, did, files, {})
  /\ UNCHANGED <<now, files, dir, aroundCache>>

GetStaleCache(key, fault) ==
  /\ LET outcome == getStaleCacheIO(key, fault)
         did == [threw |-> outcome.threw, value |-> outcome.value,
                 failed |-> getStaleCacheTry(key, fault).threw]
     IN io' = CacheCall("getStaleCache", key, Null, fault, did, files, {})
  /\ UNCHANGED <<now, files, dir, aroundCache>>

SetCache(key, data, fault) ==
  /\ LET outcome == setCacheIO(key, data, fault)
         did == [threw |-> outcome.threw, value |-> Null, failed |-> outcome.failed]
     IN /\ files' = outcome.files
        /\ io' = CacheCall("setCache", key, data, fault, did, outcome.files, {})
  /\ UNCHANGED <<now, dir, aroundCache>>

ClearCache(order, failAt) ==
  /\ LET outcome == clearCacheIO(order, failAt)
         did == [threw |-> outcome.threw, value |-> Null, failed |-> outcome.failed]
         kept == IF dir /\ failAt # 0 THEN {order[failAt]} ELSE {}
     IN /\ files' = outcome.files
        /\ io' = CacheCall("clearCache", "", Null, "none", did, outcome.files, kept)
  /\ UNCHANGED <<now, dir, aroundCache>>

\* The cache directory is removed with all that is in it.
RemoveDirectory ==
  /\ dir
  /\ dir' = FALSE
  /\ files' = [k \in {} |-> Null]
  /\ UNCHANGED <<now, io, aroundCache>>

\* The server is started again: api-cache is loaded, and makes the directory.
LoadModule ==
  /\ ~dir
  /\ dir' = TRUE
  /\ UNCHANGED <<now, files, io, aroundCache>>

NextCache ==
  \/ \E key \in CacheKeys, fault \in ReadFaults : GetCached(key, fault)
  \/ \E key \in CacheKeys, fault \in ReadFaults : GetStaleCache(key, fault)
  \/ \E key \in CacheKeys, data \in CachePayloads, fault \in WriteFaults :
       SetCache(key, data, fault)
  \/ \E order \in Listings, failAt \in 0..Cardinality(DOMAIN files) :
       ClearCache(order, failAt)
  \/ RemoveDirectory
  \/ LoadModule
  \/ Tick

CacheSpec == Init /\ [][NextCache]_vars

\* The data that the file of key holds in directory d (null when it holds none).
Held(d, key) ==
  IF key \in DOMAIN d /\ IsJSON(d[key]) THEN JSON_parse(d[key]).data ELSE Null

IsRead(call) == call.op \in {"getCached", "getStaleCache"}

C12_SetCacheMakesDirectory ==
  (io.op = "setCache" /\ ~io.hadDir /\ io.fault = "none")
    => ReadsBackAs(io.data, Held(io.after, io.key))

\* C13: after clearCache, the only entries left are those whose own removal
\* failed: a removal that fails does not keep the others from being removed.
C13_ClearIsBestEffort ==
  io.op = "clearCache" /\ io.hadDir => DOMAIN io.after \subseteq io.kept

(***************************************************************************)
(* Fundamentals: fetchEODHDFundamentals, fetchTradingViewFinancials,       *)
(* fetchMubasherFinancials, the static table EGX_PE_DATA and the           *)
(* orchestrator fetchStockFinancials.                                      *)
(***************************************************************************)
\* a / b
Divide(a, b) ==
  LET x == ToNumber(a)
      y == ToNumber(b)
      Flip(z) == IF z.t = "inf" THEN NegInfinity ELSE Infinity
  IN CASE x.t = "nan" \/ y.t = "nan" -> NaN
       [] x.t = "num" /\ y.t = "num" ->
            IF y.v # 0 THEN Frac(x.v * y.d, x.d * y.v)
            ELSE IF x.v = 0 THEN NaN
            ELSE IF x.v > 0 THEN Infinity ELSE NegInfinity
       [] x.t = "num" -> Num(0)
       [] y.t = "num" -> IF y.v < 0 THEN Flip(x) ELSE x
       [] OTHER -> NaN

\* a || b
Or(a, b) == IF Truthy(a) THEN a ELSE b

\* x && typeof x === "number" ? x : null
NumberOrNull(x) == IF Truthy(x) /\ IsNumber(x) THEN x ELSE Null

\* x ? parseFloat(x) : null
ParsedOrNull(x) == IF Truthy(x) THEN parseFloat(x) ELSE Null

StockFinancials(eps, peRatio, bookValue, recommendation, dividendYield, source) ==
  [eps |-> eps, peRatio |-> peRatio, bookValue |-> bookValue,
   recommendation |-> recommendation, dividendYield |-> dividendYield,
   source |-> source]

FinancialFields == {"eps", "peRatio", "bookValue", "dividendYield"}

\* Symbols of the static table, and one that it does not list.
FinancialSymbols == {"COMI", "ETEL", "SCGM", "ZZZZ"}

\* EGX_PE_DATA: three of its rows (7.52, 2.032, 16.36; 11.47, 2.21; 253.50, 0).
\* A row without eps has eps undefined, which is falsy like null.
EGX_PE_DATA ==
  [symbol \in {"COMI", "ETEL", "SCGM"} |->
     CASE symbol = "COMI" ->
            [peRatio |-> Frac(752, 100), dividendYield |-> Frac(2032, 1000),
             eps |-> Frac(1636, 100)]
       [] symbol = "ETEL" ->
            [peRatio |-> Frac(1147, 100), dividendYield |-> Frac(221, 100),
             eps |-> Null]
       [] OTHER ->
            [peRatio |-> Frac(25350, 100), dividendYield |-> Num(0), eps |-> Null]]

FundamentalsKey(symbol) == "fundamentals_" \o symbol

\* fetchEODHDFundamentals: the fresh cache entry, or null (the request to
\* EODHD is commented out, and nothing stores a fundamentals entry).
fetchEODHDFundamentals(symbol) ==
  LET cached == getCached(FundamentalsKey(symbol))
  IN IF cached # Null THEN MarkCached(cached) ELSE Null

\* The columns of a TradingView scanner row that fetchTradingViewFinancials reads.
TVEpsValues == {Null, Num(2)}
TVPeValues == {Null, Num(9)}
TVYieldValues == {Null, Num(0), Num(4)}
TVPriceBookValues == {Null, Num(2)}

\* shape: "none" (no data[0], or no d in it), "scalar" (d is not iterable) or
\* "row" (d is the array of the requested columns: name, close,
\* earnings_per_share_basic_ttm, price_earnings_ttm, dividend_yield_recent,
\* price_book_ratio, market_cap_basic, Recommend.All).
TVFinancialsResponses ==
  { [kind |-> k, shape |-> "none", d |-> <<>>] : k \in {"reject", "notok", "ok"} }
  \cup { [kind |-> "ok", shape |-> "scalar", d |-> <<>>] }
  \cup { [kind |-> "ok", shape |-> "row",
          d |-> <<Str, Num(10), eps, pe, dy, pb, Null, Null>>] :
           eps \in TVEpsValues, pe \in TVPeValues, dy \in TVYieldValues,
           pb \in TVPriceBookValues }

fetchTradingViewFinancials(resp) ==
  CASE resp.kind = "reject" -> Null
    [] resp.kind = "notok" -> Null
    [] resp.shape = "none" -> Null
    \* destructuring a value that is not iterable throws: the catch returns null
    [] resp.shape = "scalar" -> Null
    [] OTHER ->
         LET closePrice == resp.d[2]
             eps == resp.d[3]
             pe == resp.d[4]
             divYield == resp.d[5]
             pbRatio == resp.d[6]
             recommend == resp.d[8]
             bookValue ==
               IF /\ Truthy(pbRatio) /\ IsNumber(pbRatio)
                  /\ Truthy(closePrice) /\ IsNumber(closePrice)
                  /\ GreaterThanZero(pbRatio)
               THEN Divide(closePrice, pbRatio) ELSE Null
         IN StockFinancials(NumberOrNull(eps), NumberOrNull(pe), bookValue,
                            NumberOrNull(recommend), NumberOrNull(divYield),
                            "TradingView (Live)")

\* The members of a Mubasher overview that fetchMubasherFinancials reads: eps,
\* pe and bookValue, and the value that the members of the other names
\* (earningsPerShare, priceEarnings, bookValuePerShare) hold.
MubasherEpsValues == {Null, NumStr(3), Str}
MubasherPeValues == {Null, Num(8)}
MubasherBookValues == {Null, Num(5)}
MubasherOtherValues == {Null, Num(6)}

\* shape: "null" (the body is null) or "object".
MubasherResponses ==
  { [kind |-> k, shape |-> "null", eps |-> Null, pe |-> Null, bookValue |-> Null,
     other |-> Null] : k \in {"reject", "notok", "ok"} }
  \cup { [kind |-> "ok", shape |-> "object", eps |-> e, pe |-> p, bookValue |-> b,
          other |-> o] :
           e \in MubasherEpsValues, p \in MubasherPeValues,
           b \in MubasherBookValues, o \in MubasherOtherValues }

fetchMubasherFinancials(resp) ==
  CASE resp.kind = "reject" -> Null
    [] resp.kind = "notok" -> Null
    [] resp.shape = "null" -> Null
    [] OTHER ->
         LET eps == OrNull(Or(resp.eps, resp.other))
             peRatio == OrNull(Or(resp.pe, resp.other))
             bookValue == OrNull(Or(resp.bookValue, resp.other))
         IN IF Truthy(eps) \/ Truthy(peRatio) \/ Truthy(bookValue)
            THEN StockFinancials(ParsedOrNull(eps), ParsedOrNull(peRatio),
                                 ParsedOrNull(bookValue), Null, Null, "Mubasher")
            ELSE Null

\* record?.field
Member(record, field) == IF record = Null THEN Null ELSE record[field]

\* tier && (tier.eps || tier.peRatio)
HasEpsOrPe(tier) == tier # Null /\ (Truthy(tier.eps) \/ Truthy(tier.peRatio))

\* The result that fetchStockFinancials builds before it asks Mubasher.
Combined(eodhd, tradingViewData) ==
  StockFinancials(Null, Null,
    OrNull(Or(Member(tradingViewData, "bookValue"), Member(eodhd, "bookValue"))),
    OrNull(Member(tradingViewData, "recommendation")),
    OrNull(Or(Member(tradingViewData, "dividendYield"), Member(eodhd, "dividendYield"))),
    IF Truthy(Member(tradingViewData, "dividendYield"))
    THEN "TradingView (Live)" ELSE Undefined)

\* The result with the eps and the P/E of Mubasher.
WithMubasher(result, mubasherData) ==
  [result EXCEPT !.eps = mubasherData.eps, !.peRatio = mubasherData.peRatio,
                 !.bookValue = Or(result.bookValue, mubasherData.bookValue),
                 !.source = "Mubasher + TradingView"]

\* The static table read for its dividend yield only.
WithEGXYieldOnly(result, symbol) ==
  IF symbol \notin DOMAIN EGX_PE_DATA THEN result
  ELSE
    LET egxFinancials == EGX_PE_DATA[symbol]
        dividendYield ==
          IF ~Truthy(result.dividendYield) /\ egxFinancials.dividendYield # Null
          THEN egxFinancials.dividendYield ELSE result.dividendYield
    IN [result EXCEPT !.dividendYield = dividendYield, !.source = "EGX (Cached)"]

\* The result with what the static table has for symbol.
WithEGX(result, symbol) ==
  IF symbol \notin DOMAIN EGX_PE_DATA THEN result
  ELSE
    LET egxFinancials == EGX_PE_DATA[symbol]
        peRatio ==
          IF /\ ~Truthy(result.peRatio) /\ Truthy(egxFinancials.peRatio)
             /\ GreaterThanZero(egxFinancials.peRatio)
          THEN egxFinancials.peRatio ELSE result.peRatio
        dividendYield ==
          IF ~Truthy(result.dividendYield) /\ egxFinancials.dividendYield # Null
          THEN egxFinancials.dividendYield ELSE result.dividendYield
        eps ==
          IF /\ ~Truthy(result.eps) /\ Truthy(egxFinancials.eps)
             /\ GreaterThanZero(egxFinancials.eps)
          THEN egxFinancials.eps ELSE result.eps
    IN [result EXCEPT !.peRatio = peRatio, !.dividendYield = dividendYield,
                      !.eps = eps,
                      !.source = IF Truthy(dividendYield)
                                 THEN "EGX (Cached) + TradingView (Live DY)"
                                 ELSE "EGX (Cached)"]

\* The call returns value.
FinancialsDone(f, value) == [f EXCEPT !.pc = "done", !.result = value]

\* fetchStockFinancials(symbol) up to its first network await: the primary
\* tier answers from the cache, and TradingView is asked when it has neither
\* an eps nor a P/E.
FinancialsRequest(symbol) ==
  /\ fin.pc = "idle"
  /\ LET eodhd == fetchEODHDFundamentals(symbol)
         started == [fin EXCEPT !.symbol = symbol, !.eodhd = eodhd,
                                !.asked = <<"EODHD">>]
     IN fin' = IF HasEpsOrPe(eodhd) THEN FinancialsDone(started, eodhd)
               ELSE [started EXCEPT !.pc = "tradingview",
                                    !.asked = Append(@, "TradingView")]
  /\ UNCHANGED aroundFinancials

\* The TradingView response arrives: Mubasher is asked when TradingView has
\* neither an eps nor a P/E.
TradingViewFinancialsResponse(resp) ==
  /\ fin.pc = "tradingview"
  /\ LET tradingViewData == fetchTradingViewFinancials(resp)
         got == [fin EXCEPT !.tradingView = tradingViewData]
     IN fin' = IF HasEpsOrPe(tradingViewData)
               THEN FinancialsDone(got, tradingViewData)
               ELSE [got EXCEPT !.pc = "mubasher", !.asked = Append(@, "Mubasher")]
  /\ UNCHANGED aroundFinancials

\* The Mubasher response arrives: the static table is read when Mubasher has
\* neither an eps nor a P/E.
MubasherResponse(resp) ==
  /\ fin.pc = "mubasher"
  /\ LET mubasherData == fetchMubasherFinancials(resp)
         result == Combined(fin.eodhd, fin.tradingView)
         got == [fin EXCEPT !.mubasher = mubasherData]
     IN fin' = IF HasEpsOrPe(mubasherData)
               THEN FinancialsDone(got, WithMubasher(result, mubasherData))
               ELSE FinancialsDone([got EXCEPT !.asked = Append(@, "EGX")],
                                   WithEGX(result, fin.symbol))
  /\ UNCHANGED aroundFinancials

\* The caller has the result; the next call may come.
FinancialsReturn ==
  /\ fin.pc = "done"
  /\ fin' = NoFinancials
  /\ UNCHANGED aroundFinancials

NextFinancials ==
  \/ \E symbol \in FinancialSymbols : FinancialsRequest(symbol)
  \/ \E resp \in TVFinancialsResponses : TradingViewFinancialsResponse(resp)
  \/ \E resp \in MubasherResponses : MubasherResponse(resp)
  \/ FinancialsReturn

FinancialsSpec == Init /\ [][NextFinancials]_vars

\* What the tier has for field: the value in what it returned, or in the
\* row of the static table (null when it has none).
TierValue(tier, field) ==
  CASE tier = "EODHD" -> Member(fin.eodhd, field)
    [] tier = "TradingView" -> Member(fin.tradingView, field)
    [] tier = "Mubasher" -> Member(fin.mubasher, field)
    [] OTHER -> IF fin.symbol \in DOMAIN EGX_PE_DATA /\ field # "bookValue"
                THEN EGX_PE_DATA[fin.symbol][field] ELSE Null

TierOrder == <<"EODHD", "TradingView", "Mubasher", "EGX">>

\* C14: fetchStockFinancials merges across its four tiers: a field of the
\* result is null only when no tier has a value for it, and a tier that has
\* returned an eps or a P/E but left another field null does not keep the
\* later tiers from being consulted.
C14_TiersFillGaps ==
  fin.pc = "done" =>
    /\ \A field \in FinancialFields :
         fin.result[field] = Null =>
           \A i \in 1..4 : ~Truthy(TierValue(TierOrder[i], field))
    /\ (\E field \in FinancialFields : fin.result[field] = Null)
         => fin.asked = TierOrder

\* C15: when TradingView yields only a dividend yield, Mubasher yields nothing
\* and the static table has a P/E for the symbol, the result holds the
\* dividend yield of TradingView and the P/E of the table, both not null.
C15_YieldAndPeTogether ==
  (/\ fin.pc = "done"
   /\ fin.tradingView # Null
   /\ fin.tradingView.dividendYield # Null
   /\ \A field \in FinancialFields \ {"dividendYield"} :
        fin.tradingView[field] = Null
   /\ fin.mubasher = Null
   /\ Len(fin.asked) >= 3
   /\ fin.symbol \in DOMAIN EGX_PE_DATA)
  => /\ fin.result.dividendYield = fin.tradingView.dividendYield
     /\ fin.result.peRatio = EGX_PE_DATA[fin.symbol].peRatio
     /\ fin.result.dividendYield # Null
     /\ fin.result.peRatio # Null

\* TradingView has only a dividend yield for ETEL, Mubasher has nothing.
C15_Witness ==
  /\ fin.pc = "done"
  /\ fin.symbol = "ETEL"
  /\ fin.asked = TierOrder
  /\ fin.mubasher = Null
  /\ fin.tradingView # Null
  /\ fin.tradingView.eps = Null
  /\ fin.tradingView.bookValue = Null
  /\ fin.result.dividendYield = Num(4)
  /\ fin.result.peRatio = Frac(1147, 100)

(***************************************************************************)
(* The risk ratios: calculateReturns, calculateSharpeRatio,                *)
(* calculateSortinoRatio and the part of calculateAnalysis that calls      *)
(* them.  Numbers are exact rationals.  The prices of the model are powers *)
(* of two, so that every return, every sum and every average that decides  *)
(* a test of the code (r < 0, stdDev === 0) is exact in binary floating    *)
(* point as well.                                                          *)
(***************************************************************************)
\* a + b and a * b of finite numbers.
Plus(a, b) == Frac(a.v * b.d + b.v * a.d, a.d * b.d)
Times(a, b) == Frac(a.v * b.v, a.d * b.d)

\* x < 0 and x === 0 of a finite number.
IsNegative(x) == x.v < 0
IsZero(x) == x.v = 0

\* array.reduce((sum, r) => sum + f(r), 0)
RECURSIVE SumOf(_, _)
SumOf(array, square) ==
  IF array = <<>> THEN Num(0)
  ELSE LET r == Head(array)
       IN Plus(IF square THEN Times(r, r) ELSE r, SumOf(Tail(array), square))

\* numerator / Math.sqrt(radicand), radicand > 0: a ratio is kept by its
\* numerator and the square of its denominator.
Ratio(numerator, radicand) ==
  [t |-> "ratio", numerator |-> numerator, radicand |-> radicand]

\* The sentinel of calculateSortinoRatio.
Sentinel == Num(999)

\* riskFreeRate = 0.10
RiskFreeRate == Frac(1, 10)

RECURSIVE calculateReturns(_)
calculateReturns(prices) ==
  IF Len(prices) < 2 THEN <<>>
  ELSE LET n == Len(prices)
           before == calculateReturns(SubSeq(prices, 1, n - 1))
       IN IF GreaterThanZero(prices[n - 1])
          THEN Append(before, Divide(Minus(prices[n], prices[n - 1]), prices[n - 1]))
          ELSE before

calculateSharpeRatio(returns) ==
  IF Len(returns) < 2 THEN Null
  ELSE
    LET count == Num(Len(returns))
        avgReturn == Divide(SumOf(returns, FALSE), count)
        deviations == [i \in 1..Len(returns) |-> Minus(returns[i], avgReturn)]
        variance == Divide(SumOf(deviations, TRUE), count)
    IN \* stdDev = Math.sqrt(variance) is 0 exactly when variance is
       IF IsZero(variance) THEN Null
       ELSE Ratio(Minus(Times(avgReturn, Num(252)), RiskFreeRate),
                  Times(variance, Num(252)))

\* calculateSortinoRatio that takes a single return for enough data.
calculateSortinoRatioOfOne(returns) ==
  IF Len(returns) < 1 THEN Null
  ELSE
    LET count == Num(Len(returns))
        avgReturn == Divide(SumOf(returns, FALSE), count)
        downsideReturns == SelectSeq(returns, IsNegative)
        downsideVariance == Divide(SumOf(downsideReturns, TRUE), count)
    IN IF Len(downsideReturns) = 0 THEN Sentinel
       ELSE Ratio(Minus(Times(avgReturn, Num(252)), RiskFreeRate),
                  Times(downsideVariance, Num(252)))

calculateSortinoRatio(returns) ==
  IF Len(returns) < 2 THEN Null
  ELSE
    LET count == Num(Len(returns))
        avgReturn == Divide(SumOf(returns, FALSE), count)
        downsideReturns == SelectSeq(returns, IsNegative)
        downsideVariance == Divide(SumOf(downsideReturns, TRUE), count)
    IN IF Len(downsideReturns) = 0 THEN Sentinel
       \* downsideDeviation = Math.sqrt(downsideVariance)
       ELSE IF IsZero(downsideVariance) THEN Null
       ELSE Ratio(Minus(Times(avgReturn, Num(252)), RiskFreeRate),
                  Times(downsideVariance, Num(252)))

\* The prices of a series, and the series fetchHistoricalPrices may return
\* (it keeps the prices that are greater than 0).
PriceValues == {Num(1), Num(2), Num(4)}
PriceSeries == UNION { [1..n -> PriceValues] : n \in 0..MaxPrices }

\* calculateAnalysis, from the prices it was given to the two ratios.
CalculateRisk(historicalPrices) ==
  /\ LET returns ==
           IF Len(historicalPrices) > 1 THEN calculateReturns(historicalPrices)
           ELSE <<>>
         calculated == Len(returns) > 0
     IN risk' =
          [pc |-> "done", historicalPrices |-> historicalPrices, returns |-> returns,
           sharpeRatio |-> IF calculated THEN calculateSharpeRatio(returns) ELSE Null,
           sortinoRatio |-> IF calculated THEN calculateSortinoRatio(returns) ELSE Null]
  /\ UNCHANGED aroundRisk

NextRisk == \E historicalPrices \in PriceSeries : CalculateRisk(historicalPrices)

RiskSpec == Init /\ [][NextRisk]_vars

\* All prices of the series are equal.
IsFlat(prices) == \A i, j \in DOMAIN prices : prices[i] = prices[j]

NoNegativeReturn(returns) == \A i \in DOMAIN returns : ~IsNegative(returns[i])

\* C16: for a flat series of prices both ratios are null.
C16_FlatSeriesHasNoRatio ==
  (risk.pc = "done" /\ IsFlat(risk.historicalPrices))
    => risk.sharpeRatio = Null /\ risk.sortinoRatio = Null

\* C17, as stated: for a series of at least 2 prices without a negative
\* return the Sortino ratio is the sentinel 999; it is null only for a
\* series of fewer than 2 prices.
C17_SentinelFromTwoPrices ==
  risk.pc = "done" =>
    /\ (Len(risk.historicalPrices) >= 2 /\ NoNegativeReturn(risk.returns))
         => risk.sortinoRatio = Sentinel
    /\ risk.sortinoRatio = Null => Len(risk.historicalPrices) < 2

\* C17, amended: for a series that yields at least 2 returns (at least 3
\* prices), none of them negative, the Sortino ratio is the sentinel 999; it
\* is null exactly when the series yields fewer than 2 returns.
C17_SentinelFromTwoReturns ==
  risk.pc = "done" =>
    /\ (Len(risk.returns) >= 2 /\ NoNegativeReturn(risk.returns))
         => risk.sortinoRatio = Sentinel
    /\ risk.sortinoRatio = Null <=> Len(risk.returns) < 2
    /\ Len(risk.returns) = IF Len(risk.historicalPrices) = 0 THEN 0
                           ELSE Len(risk.historicalPrices) - 1

\* A rising series of three prices has the sentinel for its Sortino ratio.
C17_Witness ==
  /\ risk.pc = "done"
  /\ risk.historicalPrices = <<Num(1), Num(2), Num(4)>>
  /\ risk.returns = <<Num(1), Num(1)>>
  /\ risk.sortinoRatio = Sentinel
  /\ risk.sharpeRatio = Null

(***************************************************************************)
(* POST /api/prices/batch.  The fetchStockPrice calls of a batch are the   *)
(* calls 1, 2, ... of the price path, one per element of the symbols       *)
(* array; they run concurrently, each at its own network await.            *)
(***************************************************************************)
\* symbols.slice(0, 20)
BatchLimit == 20

Min(a, b) == IF a < b THEN a ELSE b

\* An element of the symbols array of a request body: a string, or a value
\* of another type (a number).
Text(text) == [isString |-> TRUE, text |-> text]
NotText == [isString |-> FALSE, text |-> ""]

BatchElements == {Text("comi"), Text("ETEL"), NotText}

\* The bodies of a request: symbols is no array, or an array of elements.
BatchBodies ==
  { [isArray |-> FALSE, symbols |-> <<>>] }
  \cup { [isArray |-> TRUE, symbols |-> symbols] :
           symbols \in UNION { [1..n -> BatchElements] : n \in 0..MaxBatch } }

\* s.toUpperCase()
toUpperCase(text) ==
  CASE text = "comi" -> "COMI"
    [] text = "etel" -> "ETEL"
    [] OTHER -> text

\* The number of elements that map() gets through: it stops at the first
\* element that is no string, where s.toUpperCase is no function and throws.
RECURSIVE Mapped(_)
Mapped(symbols) ==
  IF symbols = <<>> \/ ~Head(symbols).isString THEN 0
  ELSE 1 + Mapped(Tail(symbols))

\* The handler up to its await: it answers 400 to a body without a
\* non-empty array; it starts the fetchStockPrice calls of the first 20
\* elements, in order, and answers 500 when starting one of them throws.
PostBatch(body) ==
  /\ batch.pc = "idle"
  /\ \A c \in DOMAIN calls : calls[c].pc = "idle"
  /\ LET posted == [batch EXCEPT !.isArray = body.isArray, !.symbols = body.symbols]
         sliced == SubSeq(body.symbols, 1, Min(Len(body.symbols), BatchLimit))
         n == Mapped(sliced)
     IN IF ~body.isArray \/ Len(body.symbols) = 0
        THEN /\ batch' = [posted EXCEPT !.pc = "answered", !.status = 400]
             /\ UNCHANGED calls
        ELSE /\ calls' = [c \in DOMAIN calls |->
                            IF c <= n
                            THEN Started(calls, c, toUpperCase(sliced[c].text))[c]
                            ELSE calls[c]]
             /\ batch' = IF n < Len(sliced)
                         THEN [posted EXCEPT !.pc = "answered", !.status = 500]
                         ELSE [posted EXCEPT !.pc = "waiting"]
  /\ UNCHANGED <<now, files, lastSet, aroundBatch>>

\* Promise.all settles: it rejects as soon as one call has let an exception
\* out, and resolves with the results in the order of the calls when all
\* have returned.
AnswerBatch ==
  /\ batch.pc = "waiting"
  /\ LET n == Min(Len(batch.symbols), BatchLimit)
     IN \/ /\ \E c \in 1..n : calls[c].raised
           /\ batch' = [batch EXCEPT !.pc = "answered", !.status = 500]
        \/ /\ \A c \in 1..n : IsDone(c)
           /\ batch' = [batch EXCEPT !.pc = "answered", !.status = 200,
                                     !.prices = [c \in 1..n |-> calls[c].result]]
  /\ UNCHANGED <<now, files, lastSet, calls, aroundBatch>>

\* The request is over and every call that it started has ended; the next
\* request may come.
NextRequest ==
  /\ batch.pc = "answered"
  /\ \A c \in DOMAIN calls : calls[c].pc \in {"idle", "done"}
  /\ batch' = NoBatch
  /\ calls' = [c \in DOMAIN calls |-> Idle]
  /\ UNCHANGED <<now, files, lastSet, aroundBatch>>

\* The upstream responses of the batch model: a failure, or one body that
\* yields a quote (two bodies for EODHD, of one row and of two).
RegularRows(rows) == \A i \in DOMAIN rows : rows[i].close = Num(1)

BatchEODHDResponses ==
  { resp \in EODHDResponses :
      \/ resp.kind = "reject"
      \/ resp.isArray /\ Len(resp.data) >= 1 /\ RegularRows(resp.data)
                      /\ resp.data[1].date = 1 }

BatchTradingViewResponses ==
  { resp \in TradingViewResponses :
      \/ resp.kind = "reject"
      \/ resp.shape = "row" /\ resp.d = <<Num(1), Num(1), Num(3), Num(3), Num(3), Num(3)>> }

BatchCNBCResponses ==
  { resp \in CNBCResponses :
      \/ resp.kind = "reject"
      \/ resp.shape = "quote" /\ resp.last = NumStr(1) /\ resp.volume = NumStr(3)
                               /\ resp.aux = NumStr(3) }

InitBatch ==
  /\ now = 0
  /\ files = [k \in {} |-> Null]
  /\ lastSet = [k \in {} |-> Null]
  /\ calls = [c \in 1..MaxBatch |-> Idle]
  /\ CacheLoaded
  /\ fin = NoFinancials
  /\ risk = NoRisk
  /\ batch = NoBatch
  /\ llm = NoAnalysis(TRUE, NoneCached)
  /\ eod = NoQuote
  /\ env = Environment("key", "")
  /\ hist = NoHistory
  /\ series = NoSeries
  /\ val = NoValuation

NextBatch ==
  \/ \E body \in BatchBodies : PostBatch(body)
  \/ \E c \in 1..MaxBatch, resp \in BatchEODHDResponses : EODHDResponse(c, resp)
  \/ \E c \in 1..MaxBatch, resp \in BatchTradingViewResponses :
       TradingViewResponse(c, resp)
  \/ \E c \in 1..MaxBatch, resp \in BatchCNBCResponses : CNBCResponse(c, resp)
  \/ AnswerBatch
  \/ NextRequest
  \/ Tick

BatchSpec == InitBatch /\ [][NextBatch]_vars

\* The elements of the body that the handler maps: the first 20.
Requested == SubSeq(batch.symbols, 1, Min(Len(batch.symbols), BatchLimit))

\* C18: a batch request with a non-empty symbols array of length n is
\* answered, only after all its fetches have completed, with exactly
\* min(n, 20) quotes, the i-th being the result of the i-th call, for the
\* i-th requested symbol; a symbol that fails has its own null-price record
\* and the batch does not fail.
C18_BatchAnswersEverySymbol ==
  (batch.pc = "answered" /\ batch.isArray /\ Len(batch.symbols) > 0)
    => /\ batch.status = 200
       /\ Len(batch.prices) = Min(Len(batch.symbols), BatchLimit)
       /\ \A i \in DOMAIN batch.prices :
            /\ IsDone(i)
            /\ batch.prices[i] = calls[i].result
            /\ Requested[i].isString
                 => batch.prices[i].symbol = toUpperCase(Requested[i].text)
            /\ batch.prices[i].price = Null
                 => batch.prices[i].error = "Price not available for this stock"

\* The calls that have fetched a quote of symbol from EODHD and stored it.
Writers(symbol) ==
  { c \in DOMAIN calls :
      /\ IsDone(c)
      /\ calls[c].symbol = symbol
      /\ calls[c].called = <<"EODHD">>
      /\ calls[c].wrote = 1 }

\* C19: when two concurrent calls for the same symbol have both missed the
\* cache and both fetched and stored a quote, the cache entry is the whole
\* entry of the one that stored last (the quote of one of the calls as JSON
\* holds it, with the time of that write), and each call has returned the
\* quote that it has made of its own response.
C19_LastWriterWins ==
  \A symbol \in Symbols :
    Cardinality(Writers(symbol)) >= 2 =>
      LET key == PriceKey(symbol)
      IN /\ key \in DOMAIN files
         /\ files[key] = JSON_stringify([data |-> lastSet[key].data,
                                          timestamp |-> lastSet[key].at])
         /\ \E c \in Writers(symbol) : lastSet[key].data = calls[c].result
         /\ \A c \in Writers(symbol) :
              /\ calls[c].result = calls[c].returned[1].value
              /\ calls[c].result.symbol = symbol
              /\ calls[c].result.source = "EODHD"
              /\ GreaterThanZero(calls[c].result.price)
              /\ calls[c].result.error = Undefined

\* Two calls of a batch have stored different quotes of the same symbol,
\* the second over the first.
C19_Witness ==
  /\ Writers("COMI") = {1, 2}
  /\ calls[1].result # calls[2].result
  /\ lastSet[PriceKey("COMI")].count >= 2
  /\ getStaleCache(PriceKey("COMI")) = calls[1].result

(***************************************************************************)
(* gemini-service: analyzeStockWithGemini.  The analysis of a symbol is    *)
(* cached under the symbol alone; skipCache is the refresh of the request. *)
(***************************************************************************)
AnalysisKey(symbol) == "gemini_analysis_" \o symbol

\* stockData.currentPrice of a request: the price the analysis is asked for.
CurrentPrices == {Num(1), Num(2)}

\* A text that is no JSON text.
NotJSON == [notJSON |-> TRUE]

\* The objects the model's text may hold: recommendation and reasoning are
\* strings ("" is falsy), fairValueEstimate is a number (1e999 is read as
\* Infinity).
GeminiAnalysis(recommendation, reasoning, fairValueEstimate) ==
  [recommendation |-> recommendation, reasoning |-> reasoning,
   fairValueEstimate |-> fairValueEstimate]

Analyses ==
  {GeminiAnalysis("Buy", "sound", Num(12)), GeminiAnalysis("Hold", "sound", Infinity),
   GeminiAnalysis("", "sound", Num(12)), GeminiAnalysis("Buy", "", Num(12))}

\* The status of the error model.generateContent rejects with: rate-limited
\* (429), unavailable (503), or a bad request (400).
RejectStatuses == {"429", "503", "400"}

\* What model.generateContent answers: it rejects, or response.text() is a
\* body between a prefix and a suffix.  ~~~ stands for the three backquotes
\* of a markdown fence.
GeminiResponses ==
  {[kind |-> "reject", status |-> status] : status \in RejectStatuses} \cup
  [kind : {"text"}, prefix : {"", "~~~json", "~~~", "Here is the analysis: "},
   body : {NotJSON} \cup Analyses, suffix : {"", "~~~"}]

\* The text without its markdown fence.
Cleaned(text) ==
  [text EXCEPT !.prefix = IF text.prefix \in {"~~~json", "~~~"} THEN "" ELSE text.prefix,
               !.suffix = IF text.suffix = "~~~" THEN "" ELSE text.suffix]

\* JSON.parse(cleanedText) throws.
ParseThrows(cleanedText) ==
  cleanedText.prefix # "" \/ cleanedText.suffix # "" \/ cleanedText.body = NotJSON

\* if (!analysisData.recommendation || !analysisData.reasoning) throw
MissingRequired(analysisData) ==
  analysisData.recommendation = "" \/ analysisData.reasoning = ""

\* The call came to its return: result from origin.
Analysed(l, result, origin) == [l EXCEPT !.pc = "done", !.result = result, !.origin = origin]

\* analyzeStockWithGemini that reads the cache whatever skipCache is.
analyzeStockWithGeminiAlwaysCached(l, stockData, skipCache) ==
  LET started == [l EXCEPT !.symbol = stockData.symbol, !.skipCache = skipCache,
                           !.currentPrice = stockData.currentPrice]
      cached == getCached(AnalysisKey(stockData.symbol))
  IN  IF cached # Null THEN Analysed(started, cached, "cache")
      ELSE IF ~l.configured THEN Analysed(started, Null, "none")
      ELSE [started EXCEPT !.pc = "generating", !.called = 1]

\* analyzeStockWithGemini up to its await of model.generateContent.
analyzeStockWithGemini(l, stockData, skipCache) ==
  LET started == [l EXCEPT !.symbol = stockData.symbol, !.skipCache = skipCache,
                           !.currentPrice = stockData.currentPrice]
      cached == IF skipCache THEN Null ELSE getCached(AnalysisKey(stockData.symbol))
  IN  IF ~skipCache /\ cached # Null THEN Analysed(started, cached, "cache")
      ELSE IF ~l.configured THEN Analysed(started, Null, "none")
      ELSE [started EXCEPT !.pc = "generating", !.called = 1]

\* analyzeStockWithGemini from the answer of model.generateContent on:
\* the call (l) and the directory (files) after it.
\* A catch block that returns null instead of the stale analysis.
GenerateCatchNull(answered, key) ==
  [l |-> Analysed(answered, Null, "stale"), files |-> files]

\* The catch blocks of analyzeStockWithGemini, for a parse error and for
\* any other error: both return what getStaleCache returns.
GenerateCatch(answered, key) ==
  [l |-> Analysed(answered, getStaleCache(key), "stale"), files |-> files]

Generated(l, resp) ==
  LET key == AnalysisKey(l.symbol)
      answered == [l EXCEPT !.response = resp]
      stale == GenerateCatch(answered, key)
  IN  IF resp.kind = "reject" THEN stale
      ELSE IF ParseThrows(Cleaned(resp)) THEN stale
      ELSE IF MissingRequired(Cleaned(resp).body) THEN stale
      ELSE [l |-> [Analysed(answered, Cleaned(resp).body, "llm") EXCEPT
                     !.latest = [symbol |-> l.symbol, currentPrice |-> l.currentPrice,
                                 skipCache |-> l.skipCache]],
            files |-> setCache(key, Cleaned(resp).body)]

\* The analyses that were cached so far.
AnalysesMade ==
  LET Made(symbol) == IF AnalysisKey(symbol) \in DOMAIN lastSet
                      THEN lastSet[AnalysisKey(symbol)].count ELSE 0
  IN  Made("COMI") + Made("ETEL")

Analyze(symbol, skipCache, currentPrice) ==
  /\ llm.pc = "idle"
  /\ AnalysesMade < MaxAnalyses
  /\ llm' = analyzeStockWithGemini(llm, [symbol |-> symbol, currentPrice |-> currentPrice], skipCache)
  /\ UNCHANGED <<now, files, lastSet, aroundAnalysis>>

GenerateContentResponse(resp) ==
  /\ llm.pc = "generating"
  /\ llm' = Generated(llm, resp).l
  /\ files' = Generated(llm, resp).files
  /\ lastSet' = IF llm'.origin = "llm"
                THEN RecordSet(AnalysisKey(llm.symbol), llm'.result) ELSE lastSet
  /\ UNCHANGED <<now, aroundAnalysis>>

AnalysisReturn ==
  /\ llm.pc = "done"
  /\ llm' = NoAnalysis(llm.configured, llm.latest)
  /\ UNCHANGED <<now, files, lastSet, aroundAnalysis>>

\* The server is started again, with or without an API key in its
\* environment; the cache directory stays.
Restart(configured) ==
  /\ llm.pc = "idle"
  /\ configured # llm.configured
  /\ llm' = NoAnalysis(configured, llm.latest)
  /\ UNCHANGED <<now, files, lastSet, aroundAnalysis>>

InitAnalysis ==
  /\ now = 0
  /\ files = [k \in {} |-> Null]
  /\ lastSet = [k \in {} |-> Null]
  /\ calls = [c \in Calls |-> Idle]
  /\ CacheLoaded
  /\ fin = NoFinancials
  /\ risk = NoRisk
  /\ batch = NoBatch
  /\ \E configured \in BOOLEAN : llm = NoAnalysis(configured, NoneCached)
  /\ eod = NoQuote
  /\ env = Environment("key", "")
  /\ hist = NoHistory
  /\ series = NoSeries
  /\ val = NoValuation

NextAnalysis ==
  \/ \E symbol \in Symbols, skipCache \in BOOLEAN, currentPrice \in CurrentPrices :
       Analyze(symbol, skipCache, currentPrice)
  \/ \E resp \in GeminiResponses : GenerateContentResponse(resp)
  \/ AnalysisReturn
  \/ \E configured \in BOOLEAN : Restart(configured)
  \/ Tick

AnalysisSpec == InitAnalysis /\ [][NextAnalysis]_vars

\* The step is the start of an analyzeStockWithGemini call.
IsAnalyze == llm.pc = "idle" /\ llm'.pc # "idle"

\* The answer of the model is a successful result: a JSON object, bare or
\* in a markdown fence, with a recommendation and a reasoning.
IsSuccessful(resp) ==
  /\ resp.kind = "text"
  /\ resp.prefix \in {"", "~~~json", "~~~"}
  /\ resp.body # NotJSON
  /\ resp.body.recommendation # "" /\ resp.body.reasoning # ""

\* A request without refresh, less than 24h after the latest successful
\* analysis of its symbol, returns the analysis the cache holds, and the
\* LLM is not called.
CachedWithoutRefresh ==
  (IsAnalyze /\ ~llm'.skipCache /\ AnalysisKey(llm'.symbol) \in FreshKeys) =>
    /\ llm'.pc = "done"
    /\ llm'.called = 0
    /\ ReadsBackAs(lastSet[AnalysisKey(llm'.symbol)].data, llm'.result)

\* A successful result of a request with refresh is the cache entry after it.
RefreshOverwrites ==
  (llm.pc = "generating" /\ llm.skipCache /\ llm'.pc = "done" /\ IsSuccessful(llm'.response)) =>
    /\ llm'.result = llm'.response.body
    /\ AnalysisKey(llm.symbol) \in DOMAIN files'
    /\ files'[AnalysisKey(llm.symbol)] = JSON_stringify([data |-> llm'.result, timestamp |-> now])

\* C20 (as stated): the analysis is cached under the symbol alone.  Without
\* refresh, a request less than 24h after a successful analysis of the
\* symbol returns the cached analysis and does not call the LLM, whatever
\* the price; with refresh the LLM is called whatever the cache holds, and
\* a successful result overwrites the entry.
C20_RefreshCallsLLM ==
  [][/\ CachedWithoutRefresh
     /\ (IsAnalyze /\ llm'.skipCache) => (llm'.pc = "generating" /\ llm'.called = 1)
     /\ RefreshOverwrites]_vars

\* C20 (amended): as stated, but with refresh the LLM is called when an
\* API key is configured; without one the call returns null, whatever
\* the cache holds.
C20_RefreshCallsLLMWhenConfigured ==
  [][/\ CachedWithoutRefresh
     /\ (IsAnalyze /\ llm'.skipCache) =>
          IF llm.configured THEN llm'.pc = "generating" /\ llm'.called = 1
          ELSE llm'.pc = "done" /\ llm'.called = 0 /\ llm'.result = Null
     /\ RefreshOverwrites]_vars

\* A request with refresh has replaced a fresh analysis of COMI made at
\* another price, and a request without refresh at yet another price is
\* answered with the new one from the cache.
C20_Witness ==
  /\ llm.pc = "done"
  /\ llm.symbol = "COMI"
  /\ ~llm.skipCache
  /\ llm.origin = "cache"
  /\ llm.called = 0
  /\ AnalysisKey("COMI") \in FreshKeys
  /\ lastSet[AnalysisKey("COMI")].count >= 2
  /\ llm.latest.symbol = "COMI"
  /\ llm.latest.skipCache
  /\ llm.latest.currentPrice # llm.currentPrice

\* The answer of the model is a text that cannot be parsed as JSON, or an
\* object without a recommendation or without a reasoning.
IsMalformed(resp) == resp.kind = "text" /\ ~IsSuccessful(resp)

\* C22: a malformed answer of the LLM is caught: nothing is written to the
\* cache, and the call returns the stale analysis of the symbol if the
\* cache holds one, else null.
C22_MalformedGivesStale ==
  [][(llm.pc = "generating" /\ llm'.pc # "generating" /\ IsMalformed(llm'.response)) =>
       /\ llm'.pc = "done"
       /\ files' = files
       /\ lastSet' = lastSet
       /\ llm'.result = Held(files, AnalysisKey(llm.symbol))]_vars

\* A malformed answer was met when the cache held an analysis of the symbol
\* older than 24h: that analysis is returned.
C22_Witness ==
  /\ llm.pc = "done"
  /\ IsMalformed(llm.response)
  /\ llm.response.body # NotJSON
  /\ AnalysisKey(llm.symbol) \in DOMAIN lastSet
  /\ AnalysisKey(llm.symbol) \notin FreshKeys
  /\ llm.result # Null
  /\ llm.result = Held(files, AnalysisKey(llm.symbol))

\* The LLM error is one the spec calls retryable: rate-limited or transient.
IsRetryable(resp) == resp.kind = "reject" /\ resp.status \in {"429", "503"}

\* C23: a rate-limited or transient LLM error is retried, up to 5 attempts
\* in all; any other error is not retried and goes to the stale cache.
C23_RetryableIsRetried ==
  [][(llm.pc = "generating" /\ llm' # llm) =>
       /\ llm'.called <= 5
       /\ (IsRetryable(llm'.response) /\ llm.called < 5) =>
            (llm'.pc = "generating" /\ llm'.called = llm.called + 1)
       /\ (llm'.response.kind = "reject" /\ ~IsRetryable(llm'.response)) =>
            (llm'.pc = "done" /\ llm'.called = llm.called)]_vars

(***************************************************************************)
(* calculateAnalysis and createFallbackAnalysis: the valuation of a        *)
(* StockAnalysis comes from the LLM, or from the formula when the LLM gave *)
(* none.  Numbers are exact: the inputs are chosen so that every square    *)
(* root the formula takes is of a negative number or of a perfect square.  *)
(***************************************************************************)
\* a * b, where either may be NaN
Product(a, b) == IF a.t = "nan" \/ b.t = "nan" THEN NaN ELSE Times(a, b)

\* a + b, where either may be NaN
Sum(a, b) == IF a.t = "nan" \/ b.t = "nan" THEN NaN ELSE Plus(a, b)

\* a < b: false when either is NaN
LessThan(a, b) == a.t = "num" /\ b.t = "num" /\ a.v * b.d < b.v * a.d

\* The root of a perfect square.
Root(n) == CHOOSE r \in 0..n : r * r = n

\* Math.sqrt: NaN for NaN and for a negative number
Math_sqrt(x) ==
  IF x.t = "nan" \/ x.v < 0 THEN NaN ELSE Frac(Root(x.v), Root(x.d))

Zone(min, max) == [min |-> min, max |-> max]

\* The members of a GeminiAnalysis that calculateAnalysis copies.
Valuation(fairValueEstimate, strongBuyZone, buyZone, holdZone, sellZone, strongSellZone, recommendation, analysisMethod, valuationStatus) ==
  [fairValueEstimate |-> fairValueEstimate, strongBuyZone |-> strongBuyZone,
   buyZone |-> buyZone, holdZone |-> holdZone, sellZone |-> sellZone,
   strongSellZone |-> strongSellZone, recommendation |-> recommendation,
   analysisMethod |-> analysisMethod, valuationStatus |-> valuationStatus]

industryPE == Num(15)

\* The zones around fairValue.
FallbackZones(fairValue) ==
  [strongBuyZone |-> Zone(Num(0), Product(fairValue, Frac(7, 10))),
   buyZone |-> Zone(Product(fairValue, Frac(7, 10)), Product(fairValue, Frac(85, 100))),
   holdZone |-> Zone(Product(fairValue, Frac(85, 100)), Product(fairValue, Frac(115, 100))),
   sellZone |-> Zone(Product(fairValue, Frac(115, 100)), Product(fairValue, Frac(13, 10))),
   strongSellZone |-> Zone(Product(fairValue, Frac(13, 10)), Product(fairValue, Num(2)))]

\* The recommendation for currentPrice against fairValue.
FallbackRecommendation(currentPrice, fairValue) ==
  IF LessThan(currentPrice, Product(fairValue, Frac(7, 10))) THEN "Strong Buy"
  ELSE IF LessThan(currentPrice, Product(fairValue, Frac(85, 100))) THEN "Buy"
  ELSE IF LessThan(currentPrice, Product(fairValue, Frac(115, 100))) THEN "Hold"
  ELSE IF LessThan(currentPrice, Product(fairValue, Frac(13, 10))) THEN "Sell"
  ELSE "Strong Sell"

\* The valuation status for ratio = currentPrice / fairValue.
FallbackStatus(ratio) ==
  IF LessThan(ratio, Frac(85, 100)) THEN "Undervalued"
  ELSE IF LessThan(Frac(115, 100), ratio) THEN "Overvalued"
  ELSE "Fair"

\* createFallbackAnalysis, but for its texts (reasoning, keyPoints,
\* simpleExplanation, riskSignals) and for what only they read (symbol,
\* dividendYield, sortinoRatio).
createFallbackAnalysis(currentPrice, eps, peRatio, bookValue, sharpeRatio) ==
  LET priced == Truthy(eps) /\ Truthy(peRatio) /\ Truthy(bookValue)
      fairValuePE == Product(eps, industryPE)
      fairValueGraham == Math_sqrt(Product(Frac(45, 2), Product(eps, bookValue)))
      fairValue == IF priced THEN Product(Sum(fairValuePE, fairValueGraham), Frac(1, 2)) ELSE Null
      zones == IF priced THEN FallbackZones(fairValue) ELSE Null
      Of(zone) == IF priced THEN zones[zone] ELSE Null
  IN  Valuation(fairValue, Of("strongBuyZone"), Of("buyZone"), Of("holdZone"), Of("sellZone"),
                Of("strongSellZone"),
                IF Truthy(fairValue) THEN FallbackRecommendation(currentPrice, fairValue)
                ELSE IF Truthy(sharpeRatio) /\ LessThan(Num(1), sharpeRatio) THEN "Buy"
                ELSE "Hold",
                "Formula-based (fallback)",
                IF Truthy(fairValue) THEN FallbackStatus(Divide(currentPrice, fairValue))
                ELSE "Fair")

\* calculateAnalysis from the answer of analyzeStockWithGemini on: the
\* StockAnalysis it returns.
calculateAnalysis(price, financials, sharpeRatio, geminiAnalysis) ==
  LET currentPrice == price.price
      eps == IF Truthy(financials.eps) THEN financials.eps
             ELSE IF Truthy(financials.peRatio) /\ Truthy(currentPrice)
                     /\ GreaterThanZero(financials.peRatio)
                  THEN Divide(currentPrice, financials.peRatio)
                  ELSE Null
      valuation == IF geminiAnalysis # Null
                   THEN [geminiAnalysis EXCEPT !.analysisMethod = "Gemini AI"]
                   ELSE createFallbackAnalysis(Or(currentPrice, Num(0)), eps, financials.peRatio,
                                               financials.bookValue, sharpeRatio)
  IN  [currentPrice |-> currentPrice, eps |-> eps, peRatio |-> financials.peRatio,
       bookValue |-> financials.bookValue, sharpeRatio |-> sharpeRatio,
       fairValueAvg |-> valuation.fairValueEstimate,
       strongBuyZone |-> valuation.strongBuyZone, buyZone |-> valuation.buyZone,
       holdZone |-> valuation.holdZone, sellZone |-> valuation.sellZone,
       strongSellZone |-> valuation.strongSellZone,
       recommendation |-> valuation.recommendation,
       analysisMethod |-> valuation.analysisMethod,
       valuationStatus |-> valuation.valuationStatus]

\* price.price of the quote, eps, peRatio and bookValue of the financials,
\* and the Sharpe ratio that calculateAnalysis is called with.
ValuationPrices == {Null, Num(4), Num(16), Num(64)}
ValuationEps == {Null, Num(0), Num(2), Num(0 - 2)}
ValuationPeRatios == {Null, Num(2), Num(0 - 2)}
ValuationBookValues == {Null, Num(5), Num(0 - 5), Num(20)}
ValuationSharpeRatios == {Null, Num(2)}

\* What analyzeStockWithGemini returns: null, or the parsed answer of the
\* model, whose zones are what the model wrote (contiguous, with a gap, or
\* null).
GeminiValuations ==
  {Null,
   Valuation(Num(20), Zone(Num(0), Num(14)), Zone(Num(14), Num(17)), Zone(Num(17), Num(23)),
             Zone(Num(23), Num(26)), Zone(Num(26), Num(40)), "Hold", "Gemini AI", "Fair"),
   Valuation(Num(20), Zone(Num(0), Num(14)), Zone(Num(15), Num(17)), Zone(Num(17), Num(23)),
             Zone(Num(23), Num(26)), Zone(Num(26), Num(40)), "Hold", "Gemini AI", "Fair"),
   Valuation(Null, Null, Null, Null, Null, Null, "Buy", "Gemini AI", "Undervalued")}

ComposeAnalysis(price, eps, peRatio, bookValue, sharpeRatio, geminiAnalysis) ==
  /\ val.pc = "idle"
  /\ val' = [pc |-> "done", price |-> [price |-> price],
             financials |-> [eps |-> eps, peRatio |-> peRatio, bookValue |-> bookValue],
             sharpeRatio |-> sharpeRatio, geminiAnalysis |-> geminiAnalysis,
             analysis |-> calculateAnalysis([price |-> price],
                            [eps |-> eps, peRatio |-> peRatio, bookValue |-> bookValue],
                            sharpeRatio, geminiAnalysis)]
  /\ UNCHANGED aroundValuation

AnswerAnalysis ==
  /\ val.pc = "done"
  /\ val' = NoValuation
  /\ UNCHANGED aroundValuation

NextValuation ==
  \/ \E price \in ValuationPrices, eps \in ValuationEps, peRatio \in ValuationPeRatios,
        bookValue \in ValuationBookValues, sharpeRatio \in ValuationSharpeRatios,
        geminiAnalysis \in GeminiValuations :
       ComposeAnalysis(price, eps, peRatio, bookValue, sharpeRatio, geminiAnalysis)
  \/ AnswerAnalysis

ValuationSpec == Init /\ [][NextValuation]_vars

ZoneNames == <<"strongBuyZone", "buyZone", "holdZone", "sellZone", "strongSellZone">>

\* The five zones of the analysis are non-null.
HasZones(analysis) == \A i \in 1..5 : analysis[ZoneNames[i]] # Null

\* The five zones are ordered and contiguous.
ZonesOrdered(analysis) ==
  /\ \A i \in 1..5 : LessThan(analysis[ZoneNames[i]].min, analysis[ZoneNames[i]].max)
  /\ \A i \in 1..4 : analysis[ZoneNames[i + 1]].min = analysis[ZoneNames[i]].max

\* C21: in every StockAnalysis whose zones are non-null, from the formula or
\* from the LLM, each zone has min < max and each zone begins where the
\* zone before it ends.
C21_ZonesOrderedAndContiguous ==
  (val.pc = "done" /\ HasZones(val.analysis)) => ZonesOrdered(val.analysis)

\* C30: when the quote has no price and the LLM gave no analysis, the
\* formula valuation is not a buy-side recommendation and not Undervalued.
C30_NoBuyWithoutPrice ==
  (val.pc = "done" /\ val.price.price = Null /\ val.geminiAnalysis = Null
     /\ Truthy(val.analysis.fairValueAvg)) =>
    /\ val.analysis.recommendation \notin {"Strong Buy", "Buy"}
    /\ val.analysis.valuationStatus # "Undervalued"

(***************************************************************************)
(* fetchHistoricalPrices: the closing prices of a symbol, from the cache   *)
(* or from the EODHD end-of-day rows.  A cached array of prices is the     *)
(* member prices of the payload; the closes are finite, so JSON keeps them.*)
(***************************************************************************)
HistoricalKey(symbol) == "historical_" \o symbol \o "_252"

\* item.close of a row: absent, 0, or a number.
CloseValues == {Null, Num(0), Num(1), Num(2), Num(4)}

RECURSIVE DatedRows(_, _, _)
\* The rows of closes, dated from date on in steps of step days.
DatedRows(closes, date, step) ==
  IF closes = <<>> THEN <<>>
  ELSE <<[date |-> date, close |-> Head(closes)]>> \o DatedRows(Tail(closes), date + step, step)

\* The bodies of an answered request: the rows in ascending or in
\* descending order of date.
HistoricalBodies ==
  UNION { UNION { { DatedRows(closes, 1, 1), DatedRows(closes, n, 0 - 1) } :
                    closes \in [1..n -> CloseValues] } : n \in 1..MaxCloses }

\* What the request meets: a response that is not ok, or a body.
HistoricalResponses ==
  {[ok |-> FALSE, data |-> <<>>]} \cup [ok : {TRUE}, data : HistoricalBodies \cup {<<>>}]

RECURSIVE ClosePrices(_)
\* data.map(item => item.close ? parseFloat(item.close) : null)
\*     .filter(price => price !== null && price > 0)
ClosePrices(data) ==
  IF data = <<>> THEN <<>>
  ELSE LET item == Head(data)
           price == IF Truthy(item.close) THEN parseFloat(item.close) ELSE Null
       IN  (IF price # Null /\ GreaterThanZero(price) THEN <<price>> ELSE <<>>)
             \o ClosePrices(Tail(data))

\* The stale array when it holds a price, else the empty array.
StaleSeries(s, key) ==
  LET stale == getStaleCache(key)
  IN  IF stale # Null /\ Len(stale.prices) > 0
      THEN [s EXCEPT !.pc = "done", !.origin = "stale", !.prices = stale.prices]
      ELSE [s EXCEPT !.pc = "done", !.origin = "none", !.prices = <<>>]

\* fetchHistoricalPrices from the response on: the call (s) and the
\* directory (files) after it.
fetchHistoricalPrices(s, resp) ==
  LET key == HistoricalKey(s.symbol)
      met == [s EXCEPT !.data = resp.data]
      prices == ClosePrices(resp.data)
  IN  IF ~resp.ok THEN [s |-> StaleSeries(met, key), files |-> files]
      ELSE IF Len(resp.data) > 0 /\ Len(prices) > 0
           THEN [s |-> [met EXCEPT !.pc = "done", !.origin = "EODHD", !.prices = prices],
                 files |-> setCache(key, [prices |-> prices])]
           ELSE [s |-> StaleSeries(met, key), files |-> files]

FetchHistorical(symbol) ==
  /\ series.pc = "idle"
  /\ LET cached == getCached(HistoricalKey(symbol))
     IN  series' = IF cached # Null /\ Len(cached.prices) > 0
                   THEN [series EXCEPT !.pc = "done", !.symbol = symbol, !.origin = "cache",
                                       !.prices = cached.prices]
                   ELSE [series EXCEPT !.pc = "fetching", !.symbol = symbol]
  /\ UNCHANGED <<now, files, lastSet, aroundSeries>>

HistoricalResponse(resp) ==
  /\ series.pc = "fetching"
  /\ series' = fetchHistoricalPrices(series, resp).s
  /\ files' = fetchHistoricalPrices(series, resp).files
  /\ lastSet' = IF series'.origin = "EODHD"
                THEN RecordSet(HistoricalKey(series.symbol), [prices |-> series'.prices])
                ELSE lastSet
  /\ UNCHANGED <<now, aroundSeries>>

HistoricalReturn ==
  /\ series.pc = "done"
  /\ series' = NoSeries
  /\ UNCHANGED <<now, files, lastSet, aroundSeries>>

NextSeries ==
  \/ FetchHistorical("COMI")
  \/ \E resp \in HistoricalResponses : HistoricalResponse(resp)
  \/ HistoricalReturn
  \/ Tick

SeriesSpec == Init /\ [][NextSeries]_vars

\* The row of data that is dated date.
RowOf(data, date) == data[CHOOSE i \in 1..Len(data) : data[i].date = date]

RECURSIVE ByDate(_, _)
\* The rows of data from date on, in ascending order of date.
ByDate(data, date) ==
  IF date > Len(data) THEN <<>> ELSE <<RowOf(data, date)>> \o ByDate(data, date + 1)

\* C24: the prices fetchHistoricalPrices returns and caches from an EODHD
\* response are the closes in ascending order of date, whatever the order
\* of the rows of the response.
C24_PricesAreChronological ==
  (series.pc = "done" /\ series.origin = "EODHD") =>
    /\ series.prices = ClosePrices(ByDate(series.data, 1))
    /\ Held(files, HistoricalKey(series.symbol)).prices = ClosePrices(ByDate(series.data, 1))

(***************************************************************************)
(* The recommendation history: POST /api/deploy-capital records an entry   *)
(* in recommendation_history.json, a file of the cache directory; GET and  *)
(* DELETE /api/recommendation-history read it and remove from it.  hist.log*)
(* records beside it every entry that was recorded, newest first, and      *)
(* whether a DELETE of its id succeeded since.                             *)
(***************************************************************************)
HistoryKey == "recommendation_history"

\* data.amountToDeployEGP of a request body (0: none), and the bodies.
DeployAmounts == {Num(0), Num(100), Num(200)}
DeployBodies == [portfolio : BOOLEAN, amountToDeployEGP : DeployAmounts]

\* What deployCapitalWithGemini resolves to: a recommendation, or null.
DeployResults == {Null, Str}

\* fs.existsSync(historyPath)
HistoryExists(d) == HistoryKey \in DOMAIN d

\* JSON.parse(fs.readFileSync(historyPath, "utf-8"))
ReadHistory(d) == JSON_parse(d[HistoryKey])

\* fs.writeFileSync(historyPath, JSON.stringify(history, null, 2))
WriteHistory(d, history) ==
  [k \in DOMAIN d \cup {HistoryKey} |-> IF k = HistoryKey THEN [text |-> history] ELSE d[k]]

\* history.push(historyEntry): the entry goes to the end.
push(history, historyEntry) == history \o <<historyEntry>>

\* history.unshift(historyEntry): the entry goes to the front.
unshift(history, historyEntry) == <<historyEntry>> \o history

RECURSIVE filter(_, _)
\* history.filter(entry => entry.id !== id)
filter(history, id) ==
  IF history = <<>> THEN <<>>
  ELSE (IF Head(history).id # id THEN <<Head(history)>> ELSE <<>>) \o filter(Tail(history), id)

\* The entry that a request answered now records.
historyEntry(data, recommendation) ==
  [id |-> now, amountToDeployEGP |-> data.amountToDeployEGP, result |-> recommendation]

\* A valid deploy-capital request starts: it awaits the prices and the LLM.
DeployCapital(data) ==
  /\ Len(hist.log) + Len(hist.pending) < MaxHistory
  /\ IF ~data.portfolio \/ ~Truthy(data.amountToDeployEGP)
     THEN hist' = [hist EXCEPT !.op = "deploy", !.status = "400", !.body = <<>>]
     ELSE hist' = [hist EXCEPT !.pending = Append(hist.pending, data)]
  /\ UNCHANGED <<now, files, aroundHistory>>

\* deployCapitalWithGemini answers the i-th pending request: with a
\* recommendation the entry is saved and the request answered 200, with
\* null it is answered 503.
DeployAnswer(i, recommendation) ==
  /\ i \in 1..Len(hist.pending)
  /\ LET data == hist.pending[i]
         rest == [j \in 1..(Len(hist.pending) - 1) |->
                    IF j < i THEN hist.pending[j] ELSE hist.pending[j + 1]]
         entry == historyEntry(data, recommendation)
         history == IF HistoryExists(files) THEN ReadHistory(files) ELSE <<>>
     IN  IF recommendation # Null
         THEN /\ files' = WriteHistory(files, unshift(history, entry))
              /\ hist' = [hist EXCEPT !.pending = rest, !.op = "deploy", !.status = "200",
                                      !.body = <<>>,
                                      !.log = <<[entry |-> entry, live |-> TRUE]>> \o hist.log]
         ELSE /\ files' = files
              /\ hist' = [hist EXCEPT !.pending = rest, !.op = "deploy", !.status = "503",
                                      !.body = <<>>]
  /\ UNCHANGED <<now, aroundHistory>>

\* GET /api/recommendation-history
GetHistory ==
  /\ hist' = [hist EXCEPT !.op = "get", !.status = "200",
                          !.body = IF HistoryExists(files) THEN ReadHistory(files) ELSE <<>>]
  /\ UNCHANGED <<now, files, aroundHistory>>

\* DELETE /api/recommendation-history/:id
DeleteHistory(id) ==
  /\ IF ~HistoryExists(files)
     THEN /\ files' = files
          /\ hist' = [hist EXCEPT !.op = "delete", !.status = "404", !.body = <<>>]
     ELSE LET history == ReadHistory(files)
          IN  IF Len(filter(history, id)) = Len(history)
              THEN /\ files' = files
                   /\ hist' = [hist EXCEPT !.op = "delete", !.status = "404", !.body = <<>>]
              ELSE /\ files' = WriteHistory(files, filter(history, id))
                   /\ hist' = [hist EXCEPT !.op = "delete", !.status = "200", !.body = <<>>,
                                 !.log = [n \in DOMAIN hist.log |->
                                            IF hist.log[n].entry.id = id
                                            THEN [hist.log[n] EXCEPT !.live = FALSE]
                                            ELSE hist.log[n]]]
  /\ UNCHANGED <<now, aroundHistory>>

\* The ids a DELETE may name: those of the times of the model, and one that
\* no entry has.
HistoryIds == {0 - 1} \cup {n * CACHE_DURATION_MS : n \in 0..MaxDays}
                 \cup {n * CACHE_DURATION_MS - 1 : n \in 1..MaxDays}

NextHistory ==
  \/ \E data \in DeployBodies : DeployCapital(data)
  \/ \E i \in 1..MaxHistory, recommendation \in DeployResults : DeployAnswer(i, recommendation)
  \/ GetHistory
  \/ \E id \in HistoryIds : DeleteHistory(id)
  \/ Tick

HistorySpec == Init /\ [][NextHistory]_vars

\* The history that GET /api/recommendation-history answers from directory d.
HistoryOf(d) == IF HistoryExists(d) THEN ReadHistory(d) ELSE <<>>

RECURSIVE Live(_)
\* The entries of the log whose id no successful DELETE has named since
\* they were recorded, newest first.
Live(log) ==
  IF log = <<>> THEN <<>>
  ELSE (IF Head(log).live THEN <<Head(log).entry>> ELSE <<>>) \o Live(Tail(log))

RemoveAt(history, i) ==
  [j \in 1..(Len(history) - 1) |-> IF j < i THEN history[j] ELSE history[j + 1]]

\* C28: a DELETE that succeeds removes exactly one entry and leaves the
\* others in their order; a DELETE answered 404 leaves the history as it
\* was.
C28_DeleteRemovesExactlyOne ==
  [][/\ (Len(hist'.log) = Len(hist.log) /\ hist'.log # hist.log) =>
          \E i \in 1..Len(HistoryOf(files)) : HistoryOf(files') = RemoveAt(HistoryOf(files), i)
     /\ (hist'.op = "delete" /\ hist'.status = "404") => files' = files]_vars

\* The history routes beside the functions of api-cache, which work on the
\* directory that holds the history file.
NextHistoryCache ==
  \/ DeployCapital([portfolio |-> TRUE, amountToDeployEGP |-> Num(100)])
  \/ DeployAnswer(1, Str)
  \/ GetHistory
  \/ SetCache(PriceKey("COMI"), CHOOSE data \in CachePayloads : TRUE, "none")
  \/ GetCached(PriceKey("COMI"), "none")
  \/ GetStaleCache(PriceKey("COMI"), "none")
  \/ \E order \in Listings : ClearCache(order, 0)
  \/ Tick

HistoryCacheSpec == Init /\ [][NextHistoryCache]_vars

\* C29: no call of setCache, getCached, getStaleCache or clearCache changes
\* the recommendation history.
C29_CacheLeavesHistory ==
  [][(io' # io) => HistoryOf(files') = HistoryOf(files)]_vars

(***************************************************************************)
(* The API key of the LLM: gemini-service and vision-service each read     *)
(* process.env when they are loaded.  A key is a string, "" when the       *)
(* variable is not set.                                                    *)
(***************************************************************************)
KeyValues == {"", "key", "other"}

\* a || b || "" on strings
OrString(a, b) == IF a # "" THEN a ELSE IF b # "" THEN b ELSE ""

\* GEMINI_API_KEY of gemini-service
GeminiServiceKey(e) == OrString(e.GEMINI_API_KEY, e.GOOGLE_API_KEY)

\* GEMINI_API_KEY of vision-service
VisionServiceKey(e) == OrString(e.GEMINI_API_KEY, "")

\* What the vision model answers: it rejects, or a text that holds a JSON
\* array of transactions (here: their number) or no JSON.
VisionResponses ==
  {[kind |-> "reject", prefix |-> "", body |-> NotJSON, suffix |-> ""]} \cup
  [kind : {"text"}, prefix : {"", "~~~json", "~~~", "Here: "},
   body : {NotJSON, [transactions |-> 0], [transactions |-> 2]}, suffix : {"", "~~~"}]

\* extractTransactionsFromImage when the model answers resp (not asked when
\* no key is configured): what it returns or throws.
extractTransactionsFromImage(e, resp) ==
  IF VisionServiceKey(e) = ""
  THEN [e EXCEPT !.pc = "done", !.threw = TRUE, !.message = "Gemini API key not configured",
                 !.transactions = Null]
  ELSE IF resp.kind = "reject" \/ ParseThrows(Cleaned(resp))
       THEN [e EXCEPT !.pc = "done", !.threw = TRUE,
                      !.message = "Failed to extract transactions from image",
                      !.transactions = Null]
       ELSE [e EXCEPT !.pc = "done", !.threw = FALSE, !.message = "",
                      !.transactions = Cleaned(resp).body]

\* The server is started with the two variables set to gemini and google.
StartServer(gemini, google) ==
  /\ env.pc = "idle" /\ llm.pc = "idle"
  /\ env' = Environment(gemini, google)
  /\ llm' = NoAnalysis(GeminiServiceKey(env') # "", llm.latest)
  /\ UNCHANGED aroundEnvironment

ExtractTransactions(resp) ==
  /\ env.pc = "idle"
  /\ env' = extractTransactionsFromImage(env, resp)
  /\ UNCHANGED <<llm, aroundEnvironment>>

ExtractReturn ==
  /\ env.pc = "done"
  /\ env' = Environment(env.GEMINI_API_KEY, env.GOOGLE_API_KEY)
  /\ UNCHANGED <<llm, aroundEnvironment>>

NextEnvironment ==
  \/ \E gemini \in KeyValues, google \in KeyValues : StartServer(gemini, google)
  \/ \E resp \in VisionResponses : ExtractTransactions(resp)
  \/ ExtractReturn
  \/ \E symbol \in Symbols, skipCache \in BOOLEAN : Analyze(symbol, skipCache, Num(1))
  \/ \E status \in RejectStatuses : GenerateContentResponse([kind |-> "reject", status |-> status])
  \/ AnalysisReturn

EnvironmentSpec == Init /\ [][NextEnvironment]_vars

\* C26: with only GOOGLE_API_KEY set, analyzeStockWithGemini and
\* extractTransactionsFromImage are configured: neither reports a missing
\* key.
C26_GoogleKeyConfiguresBoth ==
  (env.GEMINI_API_KEY = "" /\ env.GOOGLE_API_KEY # "") =>
    /\ llm.configured
    /\ (llm.pc = "done" /\ llm.result = Null) => llm.called = 1
    /\ (env.pc = "done" /\ env.threw) => env.message # "Gemini API key not configured"

(***************************************************************************)
(* The quote of fetchEODHDPrice for bodies of two or more daily rows with  *)
(* regular closes, in ascending and in descending order of date.           *)
(***************************************************************************)
\* The closes of the daily rows: regular prices.
QuoteCloses == {Num(1), Num(2), Num(4), Num(8)}

\* The bodies: the rows of day 1, 2, .. in either order, each with a close
\* of QuoteCloses.
DailyBodies ==
  UNION { UNION { { [i \in 1..n |-> DailyRow(closes[i], Num(3))
                                      @@ [date |-> i]],
                    [i \in 1..n |-> DailyRow(closes[n + 1 - i], Num(3))
                                      @@ [date |-> n + 1 - i]] } :
                    closes \in [1..n -> QuoteCloses] } : n \in 2..MaxCloses }

BuildQuote(data) ==
  /\ eod.pc = "idle"
  /\ eod' = [pc |-> "done", data |-> data, value |-> EODHDQuote("COMI", TRUE, data)]
  /\ UNCHANGED aroundQuote

AnswerQuote ==
  /\ eod.pc = "done"
  /\ eod' = NoQuote
  /\ UNCHANGED aroundQuote

NextQuote ==
  \/ \E data \in DailyBodies : BuildQuote(data)
  \/ AnswerQuote

QuoteSpec == Init /\ [][NextQuote]_vars

\* The close of the row of data that is dated date.
CloseOn(data, date) == RowOf(data, date).close

\* C27: for a body of two or more daily rows, in either order, price is the
\* close of the latest day, previousClose the close of the day before it,
\* and change their difference.
C27_ChangeIsFromPreviousDay ==
  (eod.pc = "done") =>
    /\ eod.value # Null
    /\ eod.value.price = CloseOn(eod.data, Len(eod.data))
    /\ eod.value.previousClose = CloseOn(eod.data, Len(eod.data) - 1)
    /\ eod.value.change = Minus(eod.value.price, eod.value.previousClose)

====
